---- MODULE Spec2Model ----
(***************************************************************************)
(* schema-env: the resolution-and-validation pipeline of createEnv and     *)
(* createEnvAsync (src/src/index.ts).                                      *)
(*                                                                         *)
(* A call loads the .env files, optionally expands them, (async only)      *)
(* fetches the secrets, overlays the live process environment, validates   *)
(* the merged input with the chosen adapter and returns / throws.          *)
(*                                                                         *)
(* JavaScript runs one synchronous segment at a time: a call that has      *)
(* started runs until it awaits or ends, and only then may a promise       *)
(* settle, the process environment change or another call run.             *)
(***************************************************************************)
EXTENDS Integers, Sequences, FiniteSets, TLC

\* ------------------------------------------------------------------ bounds
\* longest dotEnvPath array the file-loading specification explores
MaxPaths == 3
\* most secretsSources functions the secret-fetching specification explores
MaxSources == 3
\* most changes of the live process environment while a call is suspended
MaxEnvChanges == 2

\* ------------------------------------------------------------- basic data
\* The two call slots; the single-call specifications leave slot 2 "off".
Calls == {1, 2}

\* A JavaScript object with string keys is a function on its own keys.
EmptyMap == [k \in {} |-> ""]

\* The value of a property that is present and undefined ({A: undefined}).
UNDEF == "<undefined>"

\* { ...a, ...b }: every own key of b, undefined-valued ones included, overrides a.
Spread(a, b) ==
  [k \in (DOMAIN a) \cup (DOMAIN b) |-> IF k \in DOMAIN b THEN b[k] ELSE a[k]]

\* obj[k] for a key that may be missing (undefined).
Get(m, k) == IF k \in DOMAIN m THEN m[k] ELSE UNDEF

\* All objects with keys among S and values in V.
Maps(S, V) == UNION {[D -> V] : D \in SUBSET S}

\* All sequences over S of length at most n.
SeqUpTo(S, n) == UNION {[1..m -> S] : m \in 0..n}

\* The indices of a sequence, as a set.
Indices(s) == 1..Len(s)

\* A dotEnvPath array entry that is not a string (a number, null, ...).
NonStringEntry == "<non-string>"
IsStringEntry(e) == e # NonStringEntry

\* ------------------------------------------------------- error messages
MsgBoth == "Cannot provide both 'schema' and 'validator' options."
MsgInvalidSchema ==
  "Invalid 'schema' provided. Expected a ZodObject when 'validator' is not used."
MsgNeither == "Must provide either a 'schema' or a 'validator' option."
MsgValidationFailed == "Environment validation failed. Check console output."
MsgLoadFailed(filePath) == "Failed to load environment file from " \o filePath

\* -------------------------------------------------- validation adapters
\* ZodValidatorAdapter over the tests' schema cut down to three keys:
\* NODE_ENV an enum with a default, A and B required strings.
ZodEnum == {"development", "production", "test"}
ZodKeyOrder == <<"NODE_ENV", "A", "B">>
ZodKeyFails(data, k) ==
  IF k = "NODE_ENV"
    THEN Get(data, k) # UNDEF /\ Get(data, k) \notin ZodEnum
    ELSE Get(data, k) = UNDEF
ZodKeyIssue(data, k) ==
  [path |-> <<k>>,
   message |-> IF k = "NODE_ENV" THEN "Invalid enum value" ELSE "Required"]

RECURSIVE ZodIssuesFrom(_, _)
ZodIssuesFrom(data, i) ==
  IF i > Len(ZodKeyOrder) THEN <<>>
  ELSE (IF ZodKeyFails(data, ZodKeyOrder[i])
          THEN <<ZodKeyIssue(data, ZodKeyOrder[i])>> ELSE <<>>)
       \o ZodIssuesFrom(data, i + 1)

\* schema.safeParse(data) mapped to the standardized result: unknown keys are
\* stripped, the default fills an undefined NODE_ENV.
ZodValidate(data) ==
  LET issues == ZodIssuesFrom(data, 1) IN
  IF issues = <<>>
    THEN [success |-> TRUE,
          data |-> [k \in {"NODE_ENV", "A", "B"} |->
                      IF k = "NODE_ENV" /\ Get(data, k) = UNDEF
                        THEN "development" ELSE data[k]],
          issues |-> <<>>]
    ELSE [success |-> FALSE, data |-> EmptyMap, issues |-> issues]

\* The tests' custom adapters: one always succeeds with data of its own
\* making, one always fails with two issues.
CustomSuccessValidate(data) ==
  [success |-> TRUE,
   data |-> [k \in {"CUSTOM_VAR", "INPUT_VAR"} |->
               IF k = "CUSTOM_VAR"
                 THEN "validated-" \o
                      (IF Get(data, "A") \in {UNDEF, ""} THEN "default" ELSE data["A"])
                 ELSE Get(data, "A")],
   issues |-> <<>>]

CustomFailureValidate(data) ==
  [success |-> FALSE,
   data |-> EmptyMap,
   issues |-> <<[path |-> <<"A">>, message |-> "Custom validation failed on A"],
                [path |-> <<"MISSING_CUSTOM">>,
                 message |-> "Custom missing required field"]>>]

\* Custom adapters in the manner of the Joi example: each fails with a list
\* of issues of its own, with empty, nested and repeated paths.
IssueAdapters == {"joiRootIssue", "joiNestedIssues", "joiRepeatedIssues"}
IssueAdapterIssues(adapterKind) ==
  CASE adapterKind = "joiRootIssue" ->
         <<[path |-> <<>>, message |-> "must be of type object"]>>
    [] adapterKind = "joiNestedIssues" ->
         <<[path |-> <<"DB", "HOST">>, message |-> "is required"],
           [path |-> <<>>, message |-> "contains a conflict"],
           [path |-> <<"LIST", "0", "NAME">>, message |-> "must be a string"]>>
    [] OTHER ->
         <<[path |-> <<"B">>, message |-> "is required"],
           [path |-> <<"A">>, message |-> "is required"],
           [path |-> <<"B">>, message |-> "is required"]>>

IssueAdapterValidate(adapterKind, data) ==
  [success |-> FALSE, data |-> EmptyMap, issues |-> IssueAdapterIssues(adapterKind)]

\* (mutant) the schema adapter validates whatever adapter was chosen
AdapterValidateAlwaysZod(adapterKind, data) == ZodValidate(data)

\* adapter.validate(data) of the adapter _getValidatorAdapter chose.
AdapterValidate(adapterKind, data) ==
  CASE adapterKind = "zod" -> ZodValidate(data)
    [] adapterKind = "customAdapterSuccess" -> CustomSuccessValidate(data)
    [] adapterKind \in IssueAdapters -> IssueAdapterValidate(adapterKind, data)
    [] OTHER -> CustomFailureValidate(data)

\* ------------------------------------------------------------- options
DotEnvPathFalse == [kind |-> "false", entries |-> <<>>]
DotEnvPathUndefined == [kind |-> "undefined", entries |-> <<>>]
DotEnvPathString(p) == [kind |-> "string", entries |-> <<p>>]
DotEnvPathArray(s) == [kind |-> "array", entries |-> s]

\* A secretsSources function: what calling it does, and how its promise ends.
SyncThrowSource == [kind |-> "syncThrow", vtype |-> "none", value |-> EmptyMap]
SyncReturnSource(m) == [kind |-> "syncReturn", vtype |-> "object", value |-> m]
RejectSource == [kind |-> "reject", vtype |-> "none", value |-> EmptyMap]
HangSource == [kind |-> "hang", vtype |-> "none", value |-> EmptyMap]
FulfilObject(m) == [kind |-> "fulfil", vtype |-> "object", value |-> m]
FulfilNonObject(t) == [kind |-> "fulfil", vtype |-> t, value |-> EmptyMap]

SecretsUndefined == [given |-> FALSE, fns |-> <<>>]
SecretsArray(s) == [given |-> TRUE, fns |-> s]

\* The options of a call slot that makes no call.
OffOptions ==
  [mode |-> "off", schema |-> "undefined", validator |-> "undefined",
   dotEnvPath |-> DotEnvPathFalse, expandVariables |-> FALSE,
   expander |-> "identity", secretsSources |-> SecretsUndefined]

\* ----------------------------------------------------------- file system
\* What fs.readFileSync + dotenv.parse do for a path: the parsed object, or an
\* error with a code ("ENOENT", "EACCES") or without one ("NOCODE").
FileOk(m) == [code |-> "OK", parsed |-> m]
FileError(code) == [code |-> code, parsed |-> EmptyMap]

DefaultPath == "./.env"
\* (mutant) the name of the environment-specific file does not follow NODE_ENV
EnvSpecificPathFixed(nodeEnvValue) == "./.env.test"

EnvSpecificPath(nodeEnvValue) == "./.env." \o nodeEnvValue

\* ------------------------------------------------------------------ state
VARIABLES
  opts,                \* [Calls -> options]: the argument of each call
  fs,                  \* [path -> file result]: the files on disk
  processEnv,          \* the live process.env
  envChanges,          \* how often processEnv was changed from outside
  pc,                  \* [Calls -> position of the call]
  adapter,             \* the adapter _getValidatorAdapter returned
  nodeEnv,             \* the nodeEnv argument of _loadDotEnvFiles
  pathsToLoad,         \* pathsToLoad of _loadDotEnvFiles
  loadIndex,           \* how many of pathsToLoad the loop has handled
  mergedDotEnvParsed,  \* the accumulator of _loadDotEnvFiles
  finalDotEnvValues,   \* the result of _expandDotEnvValues
  promises,            \* the promises handed to Promise.allSettled
  settleOrder,         \* the source indices in the order their promises settled
  secretsValues,       \* the result of _fetchSecrets
  sourceForValidation, \* the object handed to adapter.validate
  validationResult,    \* what adapter.validate returned
  outcome,             \* how the call ended
  log,                 \* console.warn / console.error calls, in order
  reads,               \* the paths given to fs.readFileSync, in order
  expandCalls,         \* calls of the expander
  expandArgs,          \* the parsed objects the expander was given, in order
  sourceCalls,         \* [source index -> calls of that secrets source]
  validateCalls        \* calls of adapter.validate

vars ==
  <<opts, fs, processEnv, envChanges, pc, adapter, nodeEnv, pathsToLoad,
    loadIndex, mergedDotEnvParsed, finalDotEnvValues, promises, settleOrder,
    secretsValues, sourceForValidation, validationResult, outcome, log, reads,
    expandCalls, expandArgs, sourceCalls, validateCalls>>

loadVars == <<nodeEnv, pathsToLoad, loadIndex, mergedDotEnvParsed, reads>>
secretVars == <<promises, settleOrder, secretsValues, sourceCalls>>
validationVars == <<sourceForValidation, validationResult, validateCalls>>
worldVars == <<opts, fs, processEnv, envChanges>>
expandVars == <<expandCalls, expandArgs>>

NoOutcome == [status |-> "none", message |-> "", data |-> EmptyMap]
NoResult == [success |-> FALSE, data |-> EmptyMap, issues |-> <<>>]

\* (mutant) an error raised before the try block of createEnvAsync leaves the
\* function as a synchronous throw
FailedThrowsSynchronously(c, message) ==
  [status |-> "threw", message |-> message, data |-> EmptyMap]

\* A call that throws: createEnv throws, the async function's promise rejects.
Failed(c, message) ==
  [status |-> IF opts[c].mode = "sync" THEN "threw" ELSE "rejected",
   message |-> message, data |-> EmptyMap]

Succeeded(c, data) ==
  [status |-> IF opts[c].mode = "sync" THEN "returned" ELSE "resolved",
   message |-> "", data |-> data]

LogEntry(level, kind, index, lines) ==
  [level |-> level, kind |-> kind, index |-> index, lines |-> lines]

\* The state every specification starts a call from.
InitCalls(o, files, env) ==
  /\ opts = o
  /\ fs = files
  /\ processEnv = env
  /\ envChanges = 0
  /\ pc = [c \in Calls |-> IF o[c].mode = "off" THEN "off" ELSE "start"]
  /\ adapter = [c \in Calls |-> "none"]
  /\ nodeEnv = [c \in Calls |-> UNDEF]
  /\ pathsToLoad = [c \in Calls |-> <<>>]
  /\ loadIndex = [c \in Calls |-> 0]
  /\ mergedDotEnvParsed = [c \in Calls |-> EmptyMap]
  /\ finalDotEnvValues = [c \in Calls |-> EmptyMap]
  /\ promises = [c \in Calls |-> <<>>]
  /\ settleOrder = [c \in Calls |-> <<>>]
  /\ secretsValues = [c \in Calls |-> EmptyMap]
  /\ sourceForValidation = [c \in Calls |-> EmptyMap]
  /\ validationResult = [c \in Calls |-> NoResult]
  /\ outcome = [c \in Calls |-> NoOutcome]
  /\ log = [c \in Calls |-> <<>>]
  /\ reads = [c \in Calls |-> <<>>]
  /\ expandCalls = [c \in Calls |-> 0]
  /\ expandArgs = [c \in Calls |-> <<>>]
  /\ sourceCalls = [c \in Calls |-> <<>>]
  /\ validateCalls = [c \in Calls |-> 0]

\* ------------------------------------------------------------ scheduling
\* A call between its first statement and its next await (or its end) holds
\* the single JavaScript thread.
InSync(c) == pc[c] \notin {"off", "start", "await", "done"}
MayRun(c) == \A d \in Calls \ {c} : ~InSync(d)

\* ------------------------------------------------- _getValidatorAdapter
Truthy(option) == option # "undefined"

\* (mutant) the validator silently wins when a schema is given as well
GetValidatorAdapterValidatorWins(options) ==
  IF Truthy(options.validator)
    THEN [threw |-> FALSE, message |-> "", adapter |-> options.validator]
  ELSE IF Truthy(options.schema)
    THEN IF options.schema # "ZodObject"
           THEN [threw |-> TRUE, message |-> MsgInvalidSchema, adapter |-> "none"]
           ELSE [threw |-> FALSE, message |-> "", adapter |-> "zod"]
  ELSE [threw |-> TRUE, message |-> MsgNeither, adapter |-> "none"]

_getValidatorAdapter(options) ==
  IF Truthy(options.schema) /\ Truthy(options.validator)
    THEN [threw |-> TRUE, message |-> MsgBoth, adapter |-> "none"]
  ELSE IF Truthy(options.validator)
    THEN [threw |-> FALSE, message |-> "", adapter |-> options.validator]
  ELSE IF Truthy(options.schema)
    THEN IF options.schema # "ZodObject"
           THEN [threw |-> TRUE, message |-> MsgInvalidSchema, adapter |-> "none"]
           ELSE [threw |-> FALSE, message |-> "", adapter |-> "zod"]
  ELSE [threw |-> TRUE, message |-> MsgNeither, adapter |-> "none"]

\* createEnv / createEnvAsync, step 1: choose the adapter or throw.
GetValidatorAdapter(c) ==
  /\ pc[c] = "start"
  /\ MayRun(c)
  /\ LET r == _getValidatorAdapter(opts[c]) IN
       IF r.threw
         THEN /\ outcome' = [outcome EXCEPT ![c] = Failed(c, r.message)]
              /\ pc' = [pc EXCEPT ![c] = "done"]
              /\ UNCHANGED adapter
         ELSE /\ adapter' = [adapter EXCEPT ![c] = r.adapter]
              /\ pc' = [pc EXCEPT ![c] = "load"]
              /\ UNCHANGED outcome
  /\ UNCHANGED <<worldVars, loadVars, finalDotEnvValues, secretVars,
                 validationVars, log, expandVars>>

\* ------------------------------------------------------ _loadDotEnvFiles
\* The string entries of a dotEnvPath array, in order (Array.filter).
RECURSIVE FilterStrings(_)
FilterStrings(entries) ==
  IF entries = <<>> THEN <<>>
  ELSE (IF IsStringEntry(Head(entries)) THEN <<Head(entries)>> ELSE <<>>)
       \o FilterStrings(Tail(entries))

\* One console.warn per non-string entry, in order.
RECURSIVE InvalidPathWarnings(_, _)
InvalidPathWarnings(entries, i) ==
  IF i > Len(entries) THEN <<>>
  ELSE (IF IsStringEntry(entries[i]) THEN <<>>
        ELSE <<LogEntry("warn", "invalidPath", i - 1, <<entries[i]>>)>>)
       \o InvalidPathWarnings(entries, i + 1)

PathsToLoad(dotEnvPath) ==
  CASE dotEnvPath.kind = "undefined" -> <<DefaultPath>>
    [] dotEnvPath.kind = "string" -> dotEnvPath.entries
    [] dotEnvPath.kind = "array" -> FilterStrings(dotEnvPath.entries)
    [] OTHER -> <<>>

\* loadEnvFile: the parsed object, {} for ENOENT, a throw for anything else.
ReadFile(filePath) ==
  IF filePath \in DOMAIN fs THEN fs[filePath] ELSE FileError("ENOENT")

\* (mutant) an error that carries no code is taken for a missing file
IsEnoentOrUntagged(code) == code \in {"ENOENT", "NOCODE"}

IsEnoent(code) == code = "ENOENT"

\* (mutant) a missing file is as fatal as any other read error
LoadEnvFileEnoentFatal(filePath) ==
  IF ReadFile(filePath).code = "OK"
    THEN [threw |-> FALSE, parsed |-> ReadFile(filePath).parsed]
    ELSE [threw |-> TRUE, parsed |-> EmptyMap]

loadEnvFile(filePath) ==
  LET r == ReadFile(filePath) IN
  IF r.code = "OK" THEN [threw |-> FALSE, parsed |-> r.parsed]
  ELSE IF ~IsEnoent(r.code) THEN [threw |-> TRUE, parsed |-> EmptyMap]
  ELSE [threw |-> FALSE, parsed |-> EmptyMap]

\* (mutant) the load step takes nothing from process.env
NodeEnvArgumentNotRead(env) == UNDEF

\* The second argument createEnv and createEnvAsync hand to _loadDotEnvFiles:
\* process.env.NODE_ENV, read when the load step begins.
NodeEnvArgument(env) == Get(env, "NODE_ENV")

\* _loadDotEnvFiles is entered with process.env.NODE_ENV as it is now; with
\* dotEnvPath false it returns {} at once.
BeginLoad(c) ==
  /\ pc[c] = "load"
  /\ MayRun(c)
  /\ nodeEnv' = [nodeEnv EXCEPT ![c] = NodeEnvArgument(processEnv)]
  /\ IF opts[c].dotEnvPath.kind = "false"
       THEN /\ pc' = [pc EXCEPT ![c] = "expand"]
            /\ UNCHANGED <<pathsToLoad, log>>
       ELSE /\ pathsToLoad' =
                 [pathsToLoad EXCEPT ![c] = PathsToLoad(opts[c].dotEnvPath)]
            /\ log' = [log EXCEPT ![c] =
                 @ \o InvalidPathWarnings(opts[c].dotEnvPath.entries, 1)]
            /\ pc' = [pc EXCEPT ![c] = "loadBase"]
  /\ UNCHANGED <<worldVars, adapter, loadIndex, mergedDotEnvParsed, reads,
                 finalDotEnvValues, secretVars, validationVars, outcome,
                 expandVars>>

\* (mutant) as dotenv.config does, the keys of the file that process.env
\* lacks are set in process.env
ProcessEnvAfterParsePopulated(env, parsed) ==
  [k \in (DOMAIN env) \cup (DOMAIN parsed) |->
     IF k \in DOMAIN env THEN env[k] ELSE parsed[k]]

\* fs.readFileSync and dotenv.parse build the object loadEnvFile returns;
\* process.env is left as it is.
ProcessEnvAfterParse(env, parsed) == env

\* (mutant) an earlier file keeps its keys against a later one
LoadMergeEarlierWins(merged, parsed) == Spread(parsed, merged)

\* for (const path of pathsToLoad): read one file and merge it over the
\* accumulator; a non-ENOENT error ends the call.
LoadMerge(merged, parsed) == Spread(merged, parsed)

LoadBaseFile(c) ==
  /\ pc[c] = "loadBase"
  /\ MayRun(c)
  /\ loadIndex[c] < Len(pathsToLoad[c])
  /\ LET path == pathsToLoad[c][loadIndex[c] + 1]
         r == loadEnvFile(path) IN
       /\ reads' = [reads EXCEPT ![c] = Append(@, path)]
       /\ loadIndex' = [loadIndex EXCEPT ![c] = @ + 1]
       /\ IF r.threw
            THEN /\ outcome' = [outcome EXCEPT ![c] = Failed(c, MsgLoadFailed(path))]
                 /\ pc' = [pc EXCEPT ![c] = "done"]
                 /\ UNCHANGED mergedDotEnvParsed
            ELSE /\ mergedDotEnvParsed' =
                      [mergedDotEnvParsed EXCEPT ![c] = LoadMerge(@, r.parsed)]
                 /\ UNCHANGED <<pc, outcome>>
       /\ processEnv' = ProcessEnvAfterParse(processEnv, r.parsed)
  /\ UNCHANGED <<opts, fs, envChanges, adapter, nodeEnv, pathsToLoad,
                 finalDotEnvValues, secretVars, validationVars, log, expandVars>>

\* (mutant) an empty NODE_ENV selects the file "./.env." as well
NodeEnvDefined(value) == value # UNDEF

\* if (nodeEnv): the environment-specific file is read last and merged over
\* the base files.
NodeEnvSet(value) == value # UNDEF /\ value # ""

LoadEnvSpecific(c) ==
  /\ pc[c] = "loadBase"
  /\ MayRun(c)
  /\ loadIndex[c] = Len(pathsToLoad[c])
  /\ IF NodeEnvSet(nodeEnv[c])
       THEN LET path == EnvSpecificPath(nodeEnv[c])
                r == loadEnvFile(path) IN
              /\ reads' = [reads EXCEPT ![c] = Append(@, path)]
              /\ processEnv' = ProcessEnvAfterParse(processEnv, r.parsed)
              /\ IF r.threw
                   THEN /\ outcome' =
                             [outcome EXCEPT ![c] = Failed(c, MsgLoadFailed(path))]
                        /\ pc' = [pc EXCEPT ![c] = "done"]
                        /\ UNCHANGED mergedDotEnvParsed
                   ELSE /\ mergedDotEnvParsed' =
                             [mergedDotEnvParsed EXCEPT ![c] = LoadMerge(@, r.parsed)]
                        /\ pc' = [pc EXCEPT ![c] = "expand"]
                        /\ UNCHANGED outcome
       ELSE /\ pc' = [pc EXCEPT ![c] = "expand"]
            /\ UNCHANGED <<reads, mergedDotEnvParsed, outcome, processEnv>>
  /\ UNCHANGED <<opts, fs, envChanges, adapter, nodeEnv, pathsToLoad, loadIndex,
                 finalDotEnvValues, secretVars, validationVars, log, expandVars>>

\* --------------------------------------------------- _expandDotEnvValues
\* The ${NAME} references of a file value, as the expander's regular
\* expression finds them: a token is a literal piece or a reference.
Lit(text) == [ref |-> FALSE, text |-> text]
Ref(name) == [ref |-> TRUE, text |-> name]
Tokens(value) ==
  CASE value = "${A}" -> <<Ref("A")>>
    [] value = "${B}" -> <<Ref("B")>>
    [] value = "${B}/api" -> <<Ref("B"), Lit("/api")>>
    [] value = "${MISSING}" -> <<Ref("MISSING")>>
    [] OTHER -> <<Lit(value)>>

\* (mutant) a reference to a name being processed is left as it stands
RECURSIVE ExpandTokensKeepsCycle(_, _, _)
ExpandTokensKeepsCycle(lookupValues, tokens, processing) ==
  IF tokens = <<>> THEN ""
  ELSE LET t == Head(tokens)
           piece ==
             IF ~t.ref THEN t.text
             ELSE IF t.text \in processing THEN "${" \o t.text \o "}"
             ELSE IF Get(lookupValues, t.text) # UNDEF
               THEN ExpandTokensKeepsCycle(lookupValues, Tokens(lookupValues[t.text]),
                                           processing \cup {t.text})
             ELSE ""
       IN piece \o ExpandTokensKeepsCycle(lookupValues, Tail(tokens), processing)

\* createLocalMockExpander's expandValue: a reference to a name being
\* processed, or to a name the object lacks, becomes "".
RECURSIVE ExpandTokens(_, _, _)
ExpandTokens(lookupValues, tokens, processing) ==
  IF tokens = <<>> THEN ""
  ELSE LET t == Head(tokens)
           piece ==
             IF ~t.ref THEN t.text
             ELSE IF t.text \in processing THEN ""
             ELSE IF Get(lookupValues, t.text) # UNDEF
               THEN ExpandTokens(lookupValues, Tokens(lookupValues[t.text]),
                                 processing \cup {t.text})
             ELSE ""
       IN piece \o ExpandTokens(lookupValues, Tail(tokens), processing)

LocalMockExpander(parsed) ==
  [k \in DOMAIN parsed |-> ExpandTokens(parsed, Tokens(parsed[k]), {k})]

\* What the injected expander does with { parsed: {...mergedDotEnvParsed} }.
ExpanderThrows(expander) == expander \in {"throws", "mutatesThenThrows"}
ExpanderParsed(expander, parsed) ==
  CASE expander = "localMock" -> [given |-> TRUE, parsed |-> LocalMockExpander(parsed)]
    [] expander = "identity" -> [given |-> TRUE, parsed |-> parsed]
    [] OTHER -> [given |-> FALSE, parsed |-> EmptyMap]

\* What the expander leaves in the object it was handed: an expander that
\* writes into config.parsed before it throws leaves every value overwritten.
ExpanderLeaves(expander, parsed) ==
  IF expander = "mutatesThenThrows" THEN [k \in DOMAIN parsed |-> "MUTATED"]
  ELSE parsed

\* (mutant) the expander is handed mergedDotEnvParsed itself, not a copy
ConfigToExpandShared(merged) == [parsed |-> merged, shared |-> TRUE]

\* (mutant) the expander is handed the file values under process.env
ConfigToExpandWithProcessEnv(merged) ==
  [parsed |-> [k \in (DOMAIN merged) \cup {e \in DOMAIN processEnv : processEnv[e] # UNDEF} |->
                 IF Get(processEnv, k) # UNDEF THEN processEnv[k] ELSE merged[k]],
   shared |-> FALSE]

\* const configToExpand = { parsed: { ...mergedDotEnvParsed } }: a fresh
\* object with the keys and values of the file layer.
ConfigToExpand(merged) == [parsed |-> merged, shared |-> FALSE]

\* (mutant) the expander is called whenever expansion is on
SkipsExpanderIgnoringEmpty(merged, expandVariables) == ~expandVariables

\* The early return: expansion off, or nothing to expand.
SkipsExpander(merged, expandVariables) == ~expandVariables \/ DOMAIN merged = {}

_expandDotEnvValues(merged, expandVariables, expander) ==
  IF SkipsExpander(merged, expandVariables)
    THEN [values |-> merged, calls |-> 0, args |-> <<>>, log |-> <<>>]
  ELSE LET config == ConfigToExpand(merged)
           \* mergedDotEnvParsed once the expander has run
           after == IF config.shared THEN ExpanderLeaves(expander, config.parsed)
                    ELSE merged
       IN IF ExpanderThrows(expander)
            THEN [values |-> after, calls |-> 1, args |-> <<config.parsed>>,
                  log |-> <<LogEntry("error", "expansionError", -1, <<>>)>>]
          ELSE LET r == ExpanderParsed(expander, config.parsed) IN
               [values |-> IF r.given THEN r.parsed ELSE after, calls |-> 1,
                args |-> <<config.parsed>>, log |-> <<>>]

\* Step 3: expand the file values; createEnv goes on to the merge,
\* createEnvAsync to the secrets.
ExpandDotEnvValues(c) ==
  /\ pc[c] = "expand"
  /\ MayRun(c)
  /\ LET r == _expandDotEnvValues(mergedDotEnvParsed[c], opts[c].expandVariables,
                                  opts[c].expander) IN
       /\ finalDotEnvValues' = [finalDotEnvValues EXCEPT ![c] = r.values]
       /\ expandCalls' = [expandCalls EXCEPT ![c] = @ + r.calls]
       /\ expandArgs' = [expandArgs EXCEPT ![c] = @ \o r.args]
       /\ log' = [log EXCEPT ![c] = @ \o r.log]
  /\ pc' = [pc EXCEPT ![c] = IF opts[c].mode = "sync" THEN "merge" ELSE "fetch"]
  /\ UNCHANGED <<worldVars, adapter, loadVars, secretVars, validationVars, outcome>>

\* ---------------------------------------------------------- _fetchSecrets
Pending == [state |-> "pending", vtype |-> "none", value |-> EmptyMap, reason |-> ""]
Rejected(reason) ==
  [state |-> "rejected", vtype |-> "none", value |-> EmptyMap, reason |-> reason]
Fulfilled(vtype, value) ==
  [state |-> "fulfilled", vtype |-> vtype, value |-> value, reason |-> ""]

\* (mutant) a value returned without a promise is taken as the resolved value
InvokeSourceAcceptsSyncValue(fn) ==
  CASE fn.kind = "syncThrow" -> Rejected("Sync error in secrets source function")
    [] fn.kind = "syncReturn" -> Fulfilled(fn.vtype, fn.value)
    [] OTHER -> Pending

\* secretsSources.map(...): what calling one source hands to allSettled.
InvokeSource(fn) ==
  CASE fn.kind = "syncThrow" -> Rejected("Sync error in secrets source function")
    [] fn.kind = "syncReturn" ->
         Rejected("Sync return value from secrets source function")
    [] OTHER -> Pending

Settled(p) == p.state # "pending"
\* (mutant) a race in place of the join: the first promise to settle ends the
\* wait
FirstSettled(ps) == \A i \in Indices(ps) : \E j \in Indices(ps) : Settled(ps[j])

AllSettled(ps) == \A i \in Indices(ps) : Settled(ps[i])

RECURSIVE SettledAtOnce(_, _)
SettledAtOnce(ps, i) ==
  IF i > Len(ps) THEN <<>>
  ELSE (IF Settled(ps[i]) THEN <<i>> ELSE <<>>) \o SettledAtOnce(ps, i + 1)

\* (mutant) without the try/catch of the map callback a source that throws
\* ends the map: the sources after it are never called
SourceInvocationsUntilThrow(fns) ==
  [i \in Indices(fns) |->
     IF \E j \in 1..(i - 1) : fns[j].kind = "syncThrow" THEN 0 ELSE 1]

\* secretsSources.map(...) calls sourceFn() once per element; a throw is
\* caught inside the callback and the map goes on.
SourceInvocations(fns) == [i \in Indices(fns) |-> 1]

\* Step 4, up to the await: every source is called once, in array order.
FetchSecretsInvoke(c) ==
  /\ pc[c] = "fetch"
  /\ MayRun(c)
  /\ LET fns == opts[c].secretsSources.fns
         ps == [i \in Indices(fns) |-> InvokeSource(fns[i])] IN
       /\ promises' = [promises EXCEPT ![c] = ps]
       /\ sourceCalls' = [sourceCalls EXCEPT ![c] = SourceInvocations(fns)]
       /\ settleOrder' = [settleOrder EXCEPT ![c] = SettledAtOnce(ps, 1)]
  /\ pc' = [pc EXCEPT ![c] = "await"]
  /\ UNCHANGED <<worldVars, adapter, loadVars, finalDotEnvValues, secretsValues,
                 validationVars, outcome, log, expandVars>>

\* A pending promise of a source settles, whenever its source decides.
SettlePromise(c, i) ==
  /\ pc[c] = "await"
  /\ \A d \in Calls : ~InSync(d)
  /\ i \in Indices(promises[c])
  /\ promises[c][i].state = "pending"
  /\ LET fn == opts[c].secretsSources.fns[i] IN
       /\ fn.kind \in {"fulfil", "reject"}
       /\ promises' = [promises EXCEPT ![c][i] =
            IF fn.kind = "fulfil" THEN Fulfilled(fn.vtype, fn.value)
            ELSE Rejected("Async fetch failed")]
  /\ settleOrder' = [settleOrder EXCEPT ![c] = Append(@, i)]
  /\ UNCHANGED <<worldVars, pc, adapter, loadVars, finalDotEnvValues,
                 secretsValues, sourceCalls, validationVars, outcome, log,
                 expandVars>>

\* results.forEach((result, index) => ...): one result folded into the
\* accumulator [merged, successfulFetches, log].
SecretMerge(merged, value) == Spread(merged, value)

\* (mutant) a rejected source throws away what the earlier sources gave
FoldResultRejectionResets(acc, result, index) ==
  IF result.state = "fulfilled"
    THEN [merged |-> IF result.vtype = "object"
                       THEN SecretMerge(acc.merged, result.value) ELSE acc.merged,
          successfulFetches |-> acc.successfulFetches + 1,
          log |-> IF result.vtype \in {"object", "null", "undefined"} THEN acc.log
                  ELSE Append(acc.log,
                         LogEntry("warn", "secretNonObject", index, <<result.vtype>>))]
    ELSE [merged |-> EmptyMap,
          successfulFetches |-> acc.successfulFetches,
          log |-> Append(acc.log,
                    LogEntry("warn", "secretFailed", index, <<result.reason>>))]

\* (mutant) only a source that fulfils with an object counts as a successful
\* fetch
FoldResultCountsObjectsOnly(acc, result, index) ==
  IF result.state = "fulfilled"
    THEN [merged |-> IF result.vtype = "object"
                       THEN SecretMerge(acc.merged, result.value) ELSE acc.merged,
          successfulFetches |-> IF result.vtype = "object"
                                  THEN acc.successfulFetches + 1
                                  ELSE acc.successfulFetches,
          log |-> IF result.vtype \in {"object", "null", "undefined"} THEN acc.log
                  ELSE Append(acc.log,
                         LogEntry("warn", "secretNonObject", index, <<result.vtype>>))]
    ELSE [merged |-> acc.merged,
          successfulFetches |-> acc.successfulFetches,
          log |-> Append(acc.log,
                    LogEntry("warn", "secretFailed", index, <<result.reason>>))]

\* (mutant) a source that fulfils with an object without keys does not count
\* as a successful fetch
FoldResultEmptyObjectNotCounted(acc, result, index) ==
  IF result.state = "fulfilled"
    THEN [merged |-> IF result.vtype = "object"
                       THEN SecretMerge(acc.merged, result.value) ELSE acc.merged,
          successfulFetches |->
            IF result.vtype = "object" /\ result.value = EmptyMap
              THEN acc.successfulFetches ELSE acc.successfulFetches + 1,
          log |-> IF result.vtype \in {"object", "null", "undefined"} THEN acc.log
                  ELSE Append(acc.log,
                         LogEntry("warn", "secretNonObject", index, <<result.vtype>>))]
    ELSE [merged |-> acc.merged,
          successfulFetches |-> acc.successfulFetches,
          log |-> Append(acc.log,
                    LogEntry("warn", "secretFailed", index, <<result.reason>>))]

\* (mutant) without the test for null a source that fulfils with null is
\* reported with the type typeof gives null
FoldResultWarnsOnNull(acc, result, index) ==
  IF result.state = "fulfilled"
    THEN [merged |-> IF result.vtype = "object"
                       THEN SecretMerge(acc.merged, result.value) ELSE acc.merged,
          successfulFetches |-> acc.successfulFetches + 1,
          log |-> IF result.vtype \in {"object", "undefined"} THEN acc.log
                  ELSE Append(acc.log,
                         LogEntry("warn", "secretNonObject", index,
                                  <<IF result.vtype = "null" THEN "object"
                                    ELSE result.vtype>>))]
    ELSE [merged |-> acc.merged,
          successfulFetches |-> acc.successfulFetches,
          log |-> Append(acc.log,
                    LogEntry("warn", "secretFailed", index, <<result.reason>>))]

FoldResult(acc, result, index) ==
  IF result.state = "fulfilled"
    THEN [merged |-> IF result.vtype = "object"
                       THEN SecretMerge(acc.merged, result.value) ELSE acc.merged,
          successfulFetches |-> acc.successfulFetches + 1,
          log |-> IF result.vtype \in {"object", "null", "undefined"} THEN acc.log
                  ELSE Append(acc.log,
                         LogEntry("warn", "secretNonObject", index, <<result.vtype>>))]
    ELSE [merged |-> acc.merged,
          successfulFetches |-> acc.successfulFetches,
          log |-> Append(acc.log,
                    LogEntry("warn", "secretFailed", index, <<result.reason>>))]

\* (mutant) the results are folded in the order the promises settled
VisitInSettleOrder(c) == settleOrder[c]

\* The order in which forEach visits the results: the array order.
VisitOrder(c) == [i \in Indices(promises[c]) |-> i]

RECURSIVE FoldResults(_, _, _)
FoldResults(results, order, acc) ==
  IF order = <<>> THEN acc
  ELSE FoldResults(results, Tail(order),
                   FoldResult(acc, results[Head(order)], Head(order) - 1))

\* (mutant) a single failing source is not reported as "all failed"
AllFailedOnlyForSeveral(successfulFetches, n) == successfulFetches = 0 /\ n > 1

\* (mutant) without the early return for a missing or empty list, no source
\* at all counts as every source having failed
AllFailedEvenWithoutSources(successfulFetches, n) == successfulFetches = 0

\* Whether the "all sources failed" branch is taken.
AllFailed(successfulFetches, n) == successfulFetches = 0 /\ n > 0

\* (mutant) mergedSecrets is kept outside the function: a call starts from
\* what the calls before it have merged
FetchSecretsCollectSharedAccumulator(results, order) ==
  LET acc == FoldResults(results, order,
               [merged |-> Spread(secretsValues[1], secretsValues[2]),
                successfulFetches |-> 0, log |-> <<>>])
  IN IF AllFailed(acc.successfulFetches, Len(results))
       THEN [values |-> EmptyMap,
             log |-> Append(acc.log,
                       LogEntry("warn", "allSecretsFailed", Len(results), <<>>))]
       ELSE [values |-> acc.merged, log |-> acc.log]

_fetchSecretsCollect(results, order) ==
  LET acc == FoldResults(results, order,
               [merged |-> EmptyMap, successfulFetches |-> 0, log |-> <<>>])
  IN IF AllFailed(acc.successfulFetches, Len(results))
       THEN [values |-> EmptyMap,
             log |-> Append(acc.log,
                       LogEntry("warn", "allSecretsFailed", Len(results), <<>>))]
       ELSE [values |-> acc.merged, log |-> acc.log]

\* Step 4, after the await: allSettled has every result; fold them.
FetchSecretsCollect(c) ==
  /\ pc[c] = "await"
  /\ MayRun(c)
  /\ AllSettled(promises[c])
  /\ LET r == _fetchSecretsCollect(promises[c], VisitOrder(c)) IN
       /\ secretsValues' = [secretsValues EXCEPT ![c] = r.values]
       /\ log' = [log EXCEPT ![c] = @ \o r.log]
  /\ pc' = [pc EXCEPT ![c] = "merge"]
  /\ UNCHANGED <<worldVars, adapter, loadVars, finalDotEnvValues, promises,
                 settleOrder, sourceCalls, validationVars, outcome, expandVars>>

\* ------------------------------------------------------- _mergeProcessEnv
\* (mutant) the values assembled so far win over process.env
MergeProcessEnvSourceWins(sourceInput, env) ==
  [k \in (DOMAIN sourceInput) \cup {e \in DOMAIN env : env[e] # UNDEF} |->
     IF k \in DOMAIN sourceInput THEN sourceInput[k] ELSE env[k]]

\* (mutant) the file values are spread over the secrets
SourceBeforeProcessEnvFilesWin(mode, fileValues, secrets) ==
  IF mode = "async" THEN Spread(secrets, fileValues) ELSE fileValues

\* Every variable process.env has now overrides the source object.
_mergeProcessEnv(sourceInput, env) ==
  [k \in (DOMAIN sourceInput) \cup {e \in DOMAIN env : env[e] # UNDEF} |->
     IF k \in DOMAIN env /\ env[k] # UNDEF THEN env[k] ELSE sourceInput[k]]

\* createEnvAsync: { ...expandedDotEnvValues, ...secretsValues };
\* createEnv: finalDotEnvValues.
SourceBeforeProcessEnv(mode, fileValues, secrets) ==
  IF mode = "async" THEN Spread(fileValues, secrets) ELSE fileValues

MergeProcessEnv(c) ==
  /\ pc[c] = "merge"
  /\ MayRun(c)
  /\ sourceForValidation' = [sourceForValidation EXCEPT ![c] =
       _mergeProcessEnv(
         SourceBeforeProcessEnv(opts[c].mode, finalDotEnvValues[c], secretsValues[c]),
         processEnv)]
  /\ pc' = [pc EXCEPT ![c] = "validate"]
  /\ UNCHANGED <<worldVars, adapter, loadVars, finalDotEnvValues, secretVars,
                 validationResult, validateCalls, outcome, log, expandVars>>

\* --------------------------------------------------- _validateEnvironment
Validate(c) ==
  /\ pc[c] = "validate"
  /\ MayRun(c)
  /\ validationResult' = [validationResult EXCEPT ![c] =
       AdapterValidate(adapter[c], sourceForValidation[c])]
  /\ validateCalls' = [validateCalls EXCEPT ![c] = @ + 1]
  /\ pc' = [pc EXCEPT ![c] = "validated"]
  /\ UNCHANGED <<worldVars, adapter, loadVars, finalDotEnvValues, secretVars,
                 sourceForValidation, outcome, log, expandVars>>

\* ------------------------------------------------- _formatValidationError
RECURSIVE JoinPath(_)
JoinPath(path) ==
  IF path = <<>> THEN ""
  ELSE IF Len(path) = 1 THEN path[1]
  ELSE path[1] \o "." \o JoinPath(Tail(path))

FormatIssue(issue) ==
  "  - " \o (IF JoinPath(issue.path) = "" THEN "UNKNOWN_PATH" ELSE JoinPath(issue.path))
         \o ": " \o issue.message

\* (mutant) only the first issue is reported
FormatFirstIssueOnly(issues) ==
  IF issues = <<>> THEN <<>> ELSE <<FormatIssue(issues[1])>>

_formatValidationError(issues) == [i \in Indices(issues) |-> FormatIssue(issues[i])]

\* Step 6, failure: console.error(errorMessage) ...
ReportFailure(c) ==
  /\ pc[c] = "validated"
  /\ MayRun(c)
  /\ ~validationResult[c].success
  /\ log' = [log EXCEPT ![c] = Append(@,
       LogEntry("error", "validationReport", -1,
                _formatValidationError(validationResult[c].issues)))]
  /\ pc' = [pc EXCEPT ![c] = "reported"]
  /\ UNCHANGED <<worldVars, adapter, loadVars, finalDotEnvValues, secretVars,
                 validationVars, outcome, expandVars>>

\* (mutant) the thrown message carries the first issue
ValidationErrorMessageWithIssue(issues) ==
  IF issues = <<>> THEN MsgValidationFailed
  ELSE MsgValidationFailed \o FormatIssue(issues[1])

\* ... then throw new Error(...): the message of the thrown error.
ValidationErrorMessage(issues) == MsgValidationFailed

ThrowValidationFailed(c) ==
  /\ pc[c] = "reported"
  /\ MayRun(c)
  /\ outcome' = [outcome EXCEPT ![c] =
       Failed(c, ValidationErrorMessage(validationResult[c].issues))]
  /\ pc' = [pc EXCEPT ![c] = "done"]
  /\ UNCHANGED <<worldVars, adapter, loadVars, finalDotEnvValues, secretVars,
                 validationVars, log, expandVars>>

\* Step 6, success: return validationResult.data.
ReturnData(c) ==
  /\ pc[c] = "validated"
  /\ MayRun(c)
  /\ validationResult[c].success
  /\ outcome' = [outcome EXCEPT ![c] = Succeeded(c, validationResult[c].data)]
  /\ pc' = [pc EXCEPT ![c] = "done"]
  /\ UNCHANGED <<worldVars, adapter, loadVars, finalDotEnvValues, secretVars,
                 validationVars, log, expandVars>>

\* ------------------------------------------------- the process environment
\* The variables the surrounding program sets, and the values it gives them.
EnvKeys == {"A", "B", "NODE_ENV"}
EnvValues(k) == IF k = "NODE_ENV" THEN {"", "test"} ELSE {"P"}

\* Other code of the process sets or deletes one variable while a call is
\* suspended at its await.
EnvChange ==
  /\ envChanges < MaxEnvChanges
  /\ \A d \in Calls : ~InSync(d)
  /\ \E c \in Calls : pc[c] = "await"
  /\ \E k \in EnvKeys :
       \/ /\ k \in DOMAIN processEnv
          /\ processEnv' = [j \in (DOMAIN processEnv) \ {k} |-> processEnv[j]]
       \/ \E v \in EnvValues(k) :
            /\ Get(processEnv, k) # v
            /\ processEnv' = Spread(processEnv, [j \in {k} |-> v])
  /\ envChanges' = envChanges + 1
  /\ UNCHANGED <<opts, fs, pc, adapter, loadVars, finalDotEnvValues, secretVars,
                 validationVars, outcome, log, expandVars>>

\* ------------------------------------------------------------ next-state
CallStep(c) ==
  \/ GetValidatorAdapter(c)
  \/ BeginLoad(c)
  \/ LoadBaseFile(c)
  \/ LoadEnvSpecific(c)
  \/ ExpandDotEnvValues(c)
  \/ FetchSecretsInvoke(c)
  \/ (\E i \in Indices(promises[c]) : SettlePromise(c, i))
  \/ FetchSecretsCollect(c)
  \/ MergeProcessEnv(c)
  \/ Validate(c)
  \/ ReportFailure(c)
  \/ ThrowValidationFailed(c)
  \/ ReturnData(c)

NextCalls == \E c \in Calls : CallStep(c)
Next == NextCalls \/ EnvChange

\* ---------------------------------------------------------- initial states
\* The option records built from the given choices; createEnv takes no
\* secretsSources.
OptionsOf(modes, adapters, paths, expands, secrets) ==
  {[mode |-> m, schema |-> a[1], validator |-> a[2], dotEnvPath |-> p,
    expandVariables |-> e[1], expander |-> e[2],
    secretsSources |-> IF m = "sync" THEN SecretsUndefined ELSE s] :
     m \in modes, a \in adapters, p \in paths, e \in expands, s \in secrets}

\* <<schema, validator>> pairs _getValidatorAdapter accepts, and ones it rejects.
ValidAdapterOptions ==
  {<<"ZodObject", "undefined">>, <<"undefined", "customAdapterSuccess">>,
   <<"undefined", "customAdapterFailure">>}
InvalidAdapterOptions ==
  {<<"undefined", "undefined">>, <<"ZodObject", "customAdapterSuccess">>,
   <<"ZodString", "undefined">>, <<"ZodString", "customAdapterFailure">>}

\* The paths a call with these options can read under this environment.
ReadablePaths(o, env) ==
  IF o.dotEnvPath.kind = "false" THEN {}
  ELSE {PathsToLoad(o.dotEnvPath)[i] : i \in Indices(PathsToLoad(o.dotEnvPath))}
       \cup (IF Get(env, "NODE_ENV") \notin {UNDEF, ""}
               THEN {EnvSpecificPath(env["NODE_ENV"])} ELSE {})

\* The file systems that give each of the paths one of its possible results.
FileSystems(paths, choice) ==
  {f \in [paths -> UNION {choice[p] : p \in paths}] : \A p \in paths : f[p] \in choice[p]}

\* One call, in slot 1.
InitOneCall(optionSet, envSet, choice) ==
  \E o \in optionSet, env \in envSet :
    \E files \in FileSystems(ReadablePaths(o, env), choice) :
      InitCalls([c \in Calls |-> IF c = 1 THEN o ELSE OffOptions], files, env)

\* The paths the calls of the model can name.
AllPaths == {DefaultPath, "p1", "p2", EnvSpecificPath("test"), EnvSpecificPath("bogus")}

\* All environments over EnvKeys.
AllEnvs == {env \in Maps(EnvKeys, {"", "test", "P"}) :
              \A k \in DOMAIN env : env[k] \in EnvValues(k)}

\* -- Spec: the whole pipeline of one call, every option shape, small layers.
GeneralFileChoice(p) ==
  IF p = DefaultPath
    THEN {FileError("ENOENT"), FileError("EACCES"),
          FileOk([k \in {"A", "B"} |-> IF k = "A" THEN "F" ELSE "${A}"])}
    ELSE {FileError("ENOENT"), FileOk([k \in {"A"} |-> "FE"])}

GeneralSecrets ==
  {SecretsUndefined,
   SecretsArray(<<FulfilObject([k \in {"A", "B"} |-> "S"])>>),
   SecretsArray(<<FulfilObject([k \in {"B"} |-> "S1"]), RejectSource>>)}

GeneralExpands == {<<FALSE, "identity">>, <<TRUE, "localMock">>}

GeneralOptions ==
  OptionsOf({"sync", "async"}, ValidAdapterOptions,
            {DotEnvPathUndefined, DotEnvPathFalse}, GeneralExpands, GeneralSecrets)
  \cup
  OptionsOf({"sync", "async"}, InvalidAdapterOptions,
            {DotEnvPathUndefined}, {<<TRUE, "localMock">>},
            {SecretsArray(<<FulfilObject([k \in {"A", "B"} |-> "S"])>>)})

Init == InitOneCall(GeneralOptions, AllEnvs, [p \in AllPaths |-> GeneralFileChoice(p)])

Spec == Init /\ [][Next]_vars

\* -- SpecFiles: file loading in depth (every dotEnvPath shape, files that
\* are absent, unreadable or present), the rest of the pipeline kept small.
FilesPathEntries == {"p1", "p2", NonStringEntry}

FilesDotEnvPaths ==
  {DotEnvPathFalse, DotEnvPathUndefined, DotEnvPathString("p1")}
  \cup {DotEnvPathArray(s) : s \in SeqUpTo(FilesPathEntries, MaxPaths)}

FilesFileChoice(p) ==
  CASE p = "p1" ->
         {FileError("ENOENT"), FileError("NOCODE"),
          FileOk([k \in {"A", "B"} |-> "F1"]), FileOk([k \in {"A"} |-> "F1"])}
    [] p = "p2" ->
         {FileError("ENOENT"), FileError("EACCES"),
          FileOk([k \in {"A"} |-> "F2"]), FileOk([k \in {"B"} |-> "F2"])}
    [] p = DefaultPath ->
         {FileError("ENOENT"), FileError("EACCES"), FileOk([k \in {"A"} |-> "F0"])}
    [] OTHER ->
         {FileError("ENOENT"), FileError("EACCES"),
          FileOk([k \in {"A"} |-> "FE"]), FileOk([k \in {"B"} |-> "FE"])}

FilesEnvs == {env \in AllEnvs : ("A" \in DOMAIN env) <=> ("B" \in DOMAIN env)}

FilesOptions ==
  OptionsOf({"sync", "async"}, {<<"ZodObject", "undefined">>}, FilesDotEnvPaths,
            {<<FALSE, "identity">>},
            {SecretsArray(<<FulfilObject([k \in {"B"} |-> "S"])>>)})

InitFiles == InitOneCall(FilesOptions, FilesEnvs, [p \in AllPaths |-> FilesFileChoice(p)])

SpecFiles == InitFiles /\ [][NextCalls]_vars

\* -- SpecSecrets: createEnvAsync with every list of secrets sources up to
\* MaxSources, the rest of the pipeline kept small.
SecretSourceChoices ==
  {SyncThrowSource, SyncReturnSource([k \in {"A"} |-> "R"]), RejectSource,
   FulfilObject([k \in {"A"} |-> "S1"]), FulfilObject([k \in {"A", "B"} |-> "S2"]),
   FulfilObject(EmptyMap), FulfilNonObject("string"), FulfilNonObject("null")}

SecretsSecretsSources ==
  {SecretsUndefined}
  \cup {SecretsArray(s) : s \in SeqUpTo(SecretSourceChoices, MaxSources)}

SecretsFileChoice(p) ==
  {FileError("ENOENT"), FileOk([k \in {"A", "B"} |-> "F"])}

SecretsEnvs == {[k \in {"A", "B"} |-> "P"], [k \in {"B"} |-> "P"]}

SecretsOptions ==
  OptionsOf({"async"},
            {<<"ZodObject", "undefined">>, <<"undefined", "customAdapterSuccess">>},
            {DotEnvPathUndefined, DotEnvPathArray(<<NonStringEntry>>)},
            {<<FALSE, "identity">>}, SecretsSecretsSources)

InitSecrets == InitOneCall(SecretsOptions, SecretsEnvs, [p \in AllPaths |-> SecretsFileChoice(p)])

SpecSecrets == InitSecrets /\ [][NextCalls]_vars

\* -- SpecExpand: expansion in depth (references, cycles, every expander the
\* caller can inject), one default file, the rest of the pipeline kept small.
ExpandFileChoice(p) ==
  {FileError("ENOENT"), FileOk(EmptyMap),
   FileOk([k \in {"A", "B"} |-> IF k = "A" THEN "${B}" ELSE "F"]),
   FileOk([k \in {"A", "B"} |-> IF k = "A" THEN "${B}/api" ELSE "F"]),
   FileOk([k \in {"A", "B"} |-> IF k = "A" THEN "${B}" ELSE "${A}"]),
   FileOk([k \in {"A"} |-> "${A}"]),
   FileOk([k \in {"A"} |-> "${MISSING}"])}

ExpandExpanders == {"identity", "localMock", "throws", "mutatesThenThrows", "returnsUndefined"}

ExpandExpands == {<<e, x>> : e \in BOOLEAN, x \in ExpandExpanders}

ExpandSecrets == {SecretsUndefined, SecretsArray(<<FulfilObject([k \in {"B"} |-> "S"])>>)}

ExpandEnvs == {EmptyMap, [k \in {"B"} |-> "P"], [k \in {"A", "B"} |-> "P"]}

ExpandOptions ==
  OptionsOf({"sync", "async"}, {<<"ZodObject", "undefined">>},
            {DotEnvPathUndefined}, ExpandExpands, ExpandSecrets)

InitExpand == InitOneCall(ExpandOptions, ExpandEnvs, [p \in AllPaths |-> ExpandFileChoice(p)])

SpecExpand == InitExpand /\ [][NextCalls]_vars

\* -- SpecReport: validation and its report in depth (the schema adapter and
\* custom adapters with every shape of issue list), small layers.
ReportAdapterOptions ==
  {<<"ZodObject", "undefined">>, <<"undefined", "customAdapterSuccess">>,
   <<"undefined", "customAdapterFailure">>}
  \cup {<<"undefined", a>> : a \in IssueAdapters}

ReportFileChoice(p) == {FileError("ENOENT"), FileOk([k \in {"A"} |-> "F"])}

ReportEnvs == {env \in AllEnvs : Get(env, "NODE_ENV") # "test"}
              \cup {[k \in {"NODE_ENV"} |-> "bogus"]}

ReportOptions ==
  OptionsOf({"sync", "async"}, ReportAdapterOptions, {DotEnvPathUndefined},
            {<<FALSE, "identity">>},
            {SecretsUndefined, SecretsArray(<<FulfilObject([k \in {"B"} |-> "S"])>>)})

InitReport == InitOneCall(ReportOptions, ReportEnvs, [p \in AllPaths |-> ReportFileChoice(p)])

SpecReport == InitReport /\ [][NextCalls]_vars

\* -- SpecValues: createEnvAsync with sources that fulfil with every kind of
\* value: objects, objects with an undefined property, values that are not
\* objects, null and undefined.
ValuesSourceChoices ==
  {FulfilObject([k \in {"A"} |-> "S1"]),
   FulfilObject([k \in {"A"} |-> UNDEF]),
   FulfilObject([k \in {"A", "B"} |-> IF k = "A" THEN UNDEF ELSE "S2"]),
   FulfilNonObject("string"), FulfilNonObject("number"),
   FulfilNonObject("null"), FulfilNonObject("undefined"), RejectSource}

ValuesSecretsSources ==
  {SecretsArray(s) : s \in SeqUpTo(ValuesSourceChoices, MaxSources)}

ValuesFileChoice(p) ==
  {FileError("ENOENT"), FileOk([k \in {"A", "B"} |-> "F"])}

ValuesEnvs == {[k \in {"A", "B"} |-> "P"], [k \in {"B"} |-> "P"], EmptyMap}

ValuesOptions ==
  OptionsOf({"async"}, {<<"ZodObject", "undefined">>}, {DotEnvPathUndefined},
            {<<FALSE, "identity">>}, ValuesSecretsSources)

InitValues == InitOneCall(ValuesOptions, ValuesEnvs, [p \in AllPaths |-> ValuesFileChoice(p)])

SpecValues == InitValues /\ [][NextCalls]_vars

\* -- SpecHang: createEnvAsync with sources that fulfil, reject or never
\* settle. The event loop runs every continuation that is ready, and a source
\* of the first two kinds settles its promise at some time: weak fairness of
\* the steps of each call.
HangSourceChoices == {FulfilObject([k \in {"A"} |-> "S1"]), RejectSource, HangSource}

HangSecretsSources ==
  {SecretsUndefined}
  \cup {SecretsArray(s) : s \in SeqUpTo(HangSourceChoices, MaxSources)}

HangFileChoice(p) ==
  {FileError("ENOENT"), FileError("EACCES"), FileOk([k \in {"B"} |-> "F"])}

HangEnvs == {[k \in {"A", "B"} |-> "P"], [k \in {"B"} |-> "P"]}

HangOptions ==
  OptionsOf({"async"}, {<<"ZodObject", "undefined">>, <<"undefined", "undefined">>},
            {DotEnvPathUndefined}, {<<FALSE, "identity">>}, HangSecretsSources)

InitHang == InitOneCall(HangOptions, HangEnvs, [p \in AllPaths |-> HangFileChoice(p)])

SpecHang ==
  InitHang /\ [][NextCalls]_vars /\ \A c \in Calls : WF_vars(CallStep(c))

\* -- SpecPair: one createEnv call (slot 1) and one createEnvAsync call
\* (slot 2) with the same options, files and process.env, the second with
\* secretsSources absent, empty, or holding one source.
PairSecrets == {SecretsUndefined, SecretsArray(<<>>), SecretsArray(<<RejectSource>>)}

PairOptions ==
  OptionsOf({"sync"}, ValidAdapterOptions \cup InvalidAdapterOptions,
            {DotEnvPathUndefined, DotEnvPathFalse}, GeneralExpands,
            {SecretsUndefined})

\* The options of the createEnvAsync call that goes with a createEnv call.
AsyncTwin(o, s) == [o EXCEPT !.mode = "async", !.secretsSources = s]

InitPair ==
  \E o \in PairOptions, s \in PairSecrets, env \in AllEnvs :
    \E files \in FileSystems(ReadablePaths(o, env),
                             [p \in AllPaths |-> GeneralFileChoice(p)]) :
      InitCalls([c \in Calls |-> IF c = 1 THEN o ELSE AsyncTwin(o, s)], files, env)

SpecPair == InitPair /\ [][NextCalls]_vars

\* -- SpecNodeEnv: NODE_ENV given by process.env, by a file, by a secret, or
\* by none of them, under every shape of the path option; process.env may
\* change during the await.
NodeEnvDotEnvPaths ==
  {DotEnvPathFalse, DotEnvPathUndefined, DotEnvPathString("p1"),
   DotEnvPathArray(<<"p1", "p2">>)}

NodeEnvFileChoice(p) ==
  CASE p \in {DefaultPath, "p1"} ->
         {FileError("ENOENT"), FileError("EACCES"),
          FileOk([k \in {"NODE_ENV"} |-> "test"])}
    [] p = "p2" -> {FileOk([k \in {"NODE_ENV", "A"} |-> "bogus"])}
    [] OTHER -> {FileError("ENOENT"), FileOk([k \in {"A"} |-> "FE"])}

NodeEnvSecrets ==
  {SecretsUndefined, SecretsArray(<<FulfilObject([k \in {"NODE_ENV"} |-> "test"])>>)}

NodeEnvEnvs ==
  {[k \in {"A", "B"} |-> "P"], [k \in {"B"} |-> "P"]}
  \cup {[k \in {"B", "NODE_ENV"} |-> IF k = "B" THEN "P" ELSE v] :
          v \in {"", "test", "bogus"}}

NodeEnvOptions ==
  OptionsOf({"sync", "async"}, {<<"ZodObject", "undefined">>}, NodeEnvDotEnvPaths,
            {<<FALSE, "identity">>}, NodeEnvSecrets)

\* The environment-specific files are on disk (or not) whatever NODE_ENV is.
InitNodeEnv ==
  \E o \in NodeEnvOptions, env \in NodeEnvEnvs :
    \E files \in FileSystems(ReadablePaths(o, env)
                               \cup {EnvSpecificPath("test"), EnvSpecificPath("bogus")},
                             [p \in AllPaths |-> NodeEnvFileChoice(p)]) :
      InitCalls([c \in Calls |-> IF c = 1 THEN o ELSE OffOptions], files, env)

SpecNodeEnv == InitNodeEnv /\ [][Next]_vars

\* -- SpecTwo: two createEnvAsync calls in one process, each with its own
\* path, expansion setting and secrets sources, their steps interleaved at
\* the awaits in every order.
TwoSecrets ==
  {SecretsArray(<<FulfilObject([k \in {"A"} |-> "S1"])>>),
   SecretsArray(<<RejectSource, FulfilObject([k \in {"B"} |-> "S2"])>>)}

TwoFileChoice(p) ==
  IF p = "p1"
    THEN {FileError("ENOENT"),
          FileOk([k \in {"A", "B"} |-> IF k = "A" THEN "F1" ELSE "${A}"])}
    ELSE {FileError("EACCES"), FileOk([k \in {"B"} |-> "F2"])}

TwoEnvs == {EmptyMap, [k \in {"B"} |-> "P"]}

TwoOptions ==
  OptionsOf({"async"}, {<<"ZodObject", "undefined">>},
            {DotEnvPathString("p1"), DotEnvPathString("p2")}, GeneralExpands,
            TwoSecrets)

InitTwo ==
  \E o1 \in TwoOptions, o2 \in TwoOptions, env \in TwoEnvs :
    \E files \in FileSystems({"p1", "p2"}, [p \in AllPaths |-> TwoFileChoice(p)]) :
      InitCalls([c \in Calls |-> IF c = 1 THEN o1 ELSE o2], files, env)

SpecTwo == InitTwo /\ [][NextCalls]_vars

\* ================================================================ claims
\* The positions of a call between the final merge and its end: the object
\* handed to adapter.validate is sourceForValidation, and the call still holds
\* the thread, so process.env is as the merge read it.
AfterMerge(c) == pc[c] \in {"validate", "validated", "reported"}

\* The names any layer of the model can define.
AllKeys == EnvKeys \cup {"MISSING", "CUSTOM_VAR", "INPUT_VAR"}

\* C1: in createEnv and createEnvAsync alike, every variable the live process
\* environment holds at the final merge reaches the adapter with its
\* process-environment value, whatever the files, the expansion or the secrets
\* define for it.
C1_ProcessEnvWins ==
  \A c \in Calls :
    AfterMerge(c) =>
      \A k \in DOMAIN processEnv :
        /\ k \in DOMAIN sourceForValidation[c]
        /\ sourceForValidation[c][k] = processEnv[k]

\* C1 witness: an async call validated A = "P" from a process environment that
\* was changed while the call awaited, although the file says F and the secret S.
C1_Witness ==
  /\ opts[1].mode = "async"
  /\ pc[1] = "validated"
  /\ envChanges > 0
  /\ Get(finalDotEnvValues[1], "A") = "F"
  /\ Get(secretsValues[1], "A") = "S"
  /\ Get(processEnv, "A") = "P"
  /\ Get(sourceForValidation[1], "A") = "P"

\* C2: in createEnvAsync, a key the process environment does not set carries
\* the secret value when the merged secrets define it (even if a file defines
\* it too), else the expanded file value, and is absent from the input when no
\* layer defines it.
C2_SecretsThenFiles ==
  \A c \in Calls :
    (opts[c].mode = "async" /\ AfterMerge(c)) =>
      \A k \in AllKeys \ DOMAIN processEnv :
        IF k \in DOMAIN secretsValues[c]
          THEN /\ k \in DOMAIN sourceForValidation[c]
               /\ sourceForValidation[c][k] = secretsValues[c][k]
        ELSE IF k \in DOMAIN finalDotEnvValues[c]
          THEN /\ k \in DOMAIN sourceForValidation[c]
               /\ sourceForValidation[c][k] = finalDotEnvValues[c][k]
        ELSE k \notin DOMAIN sourceForValidation[c]

\* C2 witness: with no process-environment A or B, the secret's B beat the
\* file's (expanded) B, the file's A came through, and NODE_ENV is absent.
C2_Witness ==
  /\ opts[1].mode = "async"
  /\ pc[1] = "validated"
  /\ DOMAIN processEnv = {}
  /\ Get(finalDotEnvValues[1], "A") = "F"
  /\ Get(finalDotEnvValues[1], "B") = "F"
  /\ Get(secretsValues[1], "B") = "S1"
  /\ "A" \notin DOMAIN secretsValues[1]
  /\ sourceForValidation[1] = [k \in {"A", "B"} |-> IF k = "A" THEN "F" ELSE "S1"]

\* The load order the options and the NODE_ENV of the call's start prescribe:
\* the string entries of dotEnvPath in their order, then the
\* environment-specific file.
LoadOrder(c) ==
  IF opts[c].dotEnvPath.kind = "false" THEN <<>>
  ELSE (CASE opts[c].dotEnvPath.kind = "undefined" -> <<"./.env">>
          [] opts[c].dotEnvPath.kind = "string" -> opts[c].dotEnvPath.entries
          [] OTHER -> SelectSeq(opts[c].dotEnvPath.entries, IsStringEntry))
       \o (IF nodeEnv[c] \notin {UNDEF, ""}
             THEN <<"./.env." \o nodeEnv[c]>> ELSE <<>>)

\* The file loader has returned its layer to the call.
LoaderReturned(c) ==
  \/ pc[c] \in {"expand", "fetch", "await", "merge", "validate", "validated", "reported"}
  \/ pc[c] = "done" /\ validateCalls[c] = 1

\* The positions in a load order whose file exists and defines k.
Defining(order, k) ==
  {i \in Indices(order) : /\ order[i] \in DOMAIN fs
                          /\ fs[order[i]].code = "OK"
                          /\ k \in DOMAIN fs[order[i]].parsed}

Last(S) == CHOOSE i \in S : \A j \in S : j <= i

\* C3: the layer the file loader returns gives every key the value of the last
\* file in load order that defines it: a later explicit path overrides an
\* earlier one and the environment-specific file overrides them all.
C3_LastFileWins ==
  \A c \in Calls :
    LoaderReturned(c) =>
      \A k \in AllKeys :
        LET D == Defining(LoadOrder(c), k) IN
        IF D = {} THEN k \notin DOMAIN mergedDotEnvParsed[c]
        ELSE /\ k \in DOMAIN mergedDotEnvParsed[c]
             /\ mergedDotEnvParsed[c][k] = fs[LoadOrder(c)[Last(D)]].parsed[k]

\* C3 witness: p1, p2 and ./.env.test all define A or B; the loader returned
\* A from the environment-specific file and B from p2, the later explicit path.
C3_Witness ==
  /\ pc[1] = "expand"
  /\ reads[1] = <<"p1", "p2", "./.env.test">>
  /\ fs["p1"] = FileOk([k \in {"A", "B"} |-> "F1"])
  /\ fs["p2"] = FileOk([k \in {"B"} |-> "F2"])
  /\ fs["./.env.test"] = FileOk([k \in {"A"} |-> "FE"])
  /\ mergedDotEnvParsed[1] = [k \in {"A", "B"} |-> IF k = "A" THEN "FE" ELSE "F2"]

\* What reading a path does on this disk: "OK", "ENOENT", or another failure.
ReadCode(path) == IF path \in DOMAIN fs THEN fs[path].code ELSE "ENOENT"

\* The reads of the call that failed with something other than ENOENT.
FatalReads(c) == {i \in Indices(reads[c]) : ReadCode(reads[c][i]) \notin {"OK", "ENOENT"}}

\* The input the call would validate from the process environment alone.
ProcessEnvAlone == [k \in DOMAIN processEnv |-> processEnv[k]]

\* C6: a read or parse failure other than ENOENT (an error without a code
\* included) ends the call with the load error of that file, even when the
\* process environment alone satisfies the schema; no later file is read, no
\* secrets source is called and nothing is validated.
C6_NonEnoentIsFatal ==
  \A c \in Calls :
    \A i \in FatalReads(c) :
      /\ pc[c] = "done"
      /\ outcome[c].status = (IF opts[c].mode = "sync" THEN "threw" ELSE "rejected")
      /\ outcome[c].message = "Failed to load environment file from " \o reads[c][i]
      /\ i = Len(reads[c])
      /\ sourceCalls[c] = <<>>
      /\ promises[c] = <<>>
      /\ validateCalls[c] = 0

\* C6 witness: createEnvAsync read p1, then p2 failed without an error code;
\* the call rejected although process.env alone passes the schema, and
\* ./.env.test, next in the load order, was never read.
C6_Witness ==
  /\ opts[1].mode = "async"
  /\ pc[1] = "done"
  /\ opts[1].dotEnvPath = DotEnvPathArray(<<"p2", "p1">>)
  /\ Get(processEnv, "NODE_ENV") = "test"
  /\ reads[1] = <<"p2", "p1">>
  /\ fs["p2"].code = "OK"
  /\ fs["p1"].code = "NOCODE"
  /\ ZodValidate(ProcessEnvAlone).success
  /\ outcome[1].status = "rejected"

\* The layer the readable files of a load order make, missing files skipped.
RECURSIVE LayerOf(_)
LayerOf(order) ==
  IF order = <<>> THEN EmptyMap
  ELSE LET n == Len(order)
           before == LayerOf(SubSeq(order, 1, n - 1))
       IN IF ReadCode(order[n]) = "OK"
            THEN [k \in (DOMAIN before) \cup (DOMAIN fs[order[n]].parsed) |->
                    IF k \in DOMAIN fs[order[n]].parsed
                      THEN fs[order[n]].parsed[k] ELSE before[k]]
            ELSE before

\* The load order without the files that do not exist.
Present(order) == SelectSeq(order, LAMBDA p : ReadCode(p) # "ENOENT")

\* C7: a file whose read fails with ENOENT contributes no keys and stops
\* nothing: while no read has failed otherwise, every file of the load order
\* is attempted in turn, the loader returns the layer of the files that exist,
\* and no load error is ever raised for the missing file.
C7_EnoentIsSkipped ==
  \A c \in Calls :
    /\ (FatalReads(c) = {} /\ pc[c] \notin {"off", "start", "load"}) =>
         /\ reads[c] = SubSeq(LoadOrder(c), 1, Len(reads[c]))
         /\ (pc[c] = "done" => outcome[c].message = MsgValidationFailed
                               \/ outcome[c].status \in {"returned", "resolved"})
         /\ LoaderReturned(c) =>
              /\ reads[c] = LoadOrder(c)
              /\ mergedDotEnvParsed[c] = LayerOf(Present(LoadOrder(c)))
    /\ \A i \in Indices(reads[c]) :
         ReadCode(reads[c][i]) = "ENOENT" =>
           outcome[c].message # "Failed to load environment file from " \o reads[c][i]

\* C7 witness: p1 does not exist, yet p2 and ./.env.test after it were read
\* and merged, and the call went on to return.
C7_Witness ==
  /\ pc[1] = "done"
  /\ outcome[1].status = "returned"
  /\ reads[1] = <<"p1", "p2", "./.env.test">>
  /\ fs["p1"].code = "ENOENT"
  /\ fs["p2"] = FileOk([k \in {"B"} |-> "F2"])
  /\ fs["./.env.test"] = FileOk([k \in {"A"} |-> "FE"])
  /\ mergedDotEnvParsed[1] = [k \in {"A", "B"} |-> IF k = "A" THEN "FE" ELSE "F2"]

\* _fetchSecrets has returned its mapping to createEnvAsync.
SecretsReturned(c) ==
  /\ opts[c].mode = "async"
  /\ \/ pc[c] \in {"merge", "validate", "validated", "reported"}
     \/ pc[c] = "done" /\ validateCalls[c] = 1

\* The secrets sources of a call, and those among them whose promise fulfils
\* with an object that defines k.
SourcesOf(c) == opts[c].secretsSources.fns
ObjectSources(c) ==
  {i \in Indices(SourcesOf(c)) :
     SourcesOf(c)[i].kind = "fulfil" /\ SourcesOf(c)[i].vtype = "object"}
SourcesDefining(c, k) == {i \in ObjectSources(c) : k \in DOMAIN SourcesOf(c)[i].value}

\* C4: when several sources fulfil with objects that define the same key, the
\* merged secrets hold the value of the source with the highest array index,
\* in whatever order the promises settled.
C4_HighestIndexWins ==
  \A c \in Calls :
    SecretsReturned(c) =>
      \A k \in AllKeys :
        LET D == SourcesDefining(c, k) IN
        D # {} =>
          /\ k \in DOMAIN secretsValues[c]
          /\ secretsValues[c][k] = SourcesOf(c)[Last(D)].value[k]

\* C4 witness: sources 0 and 2 both define A; the promise of source 2 settled
\* first and that of source 0 last, and the merged A is still that of source 2.
C4_Witness ==
  /\ pc[1] = "merge"
  /\ SourcesOf(1) = <<FulfilObject([k \in {"A", "B"} |-> "S2"]), RejectSource,
                      FulfilObject([k \in {"A"} |-> "S1"])>>
  /\ settleOrder[1] = <<3, 2, 1>>
  /\ secretsValues[1] = [k \in {"A", "B"} |-> IF k = "A" THEN "S1" ELSE "S2"]

\* The warnings _fetchSecrets logged, in order.
IsSecretsWarning(e) ==
  e.level = "warn" /\ e.kind \in {"secretFailed", "secretNonObject", "allSecretsFailed"}
SecretsWarnings(c) == SelectSeq(log[c], IsSecretsWarning)
WarningsOfKind(c, kind) ==
  {j \in Indices(SecretsWarnings(c)) : SecretsWarnings(c)[j].kind = kind}

\* The sources whose promise rejects: a sync throw, a sync return value, or an
\* asynchronous rejection.
FailingSources(c) ==
  {i \in Indices(SourcesOf(c)) :
     SourcesOf(c)[i].kind \in {"syncThrow", "syncReturn", "reject"}}

\* The keys the object-returning sources of a call define.
KeysOfObjectSources(c) == UNION {DOMAIN SourcesOf(c)[i].value : i \in ObjectSources(c)}

\* What validation decides for a call, given the secrets it is handed.
WouldValidate(c, secrets) ==
  AdapterValidate(adapter[c],
    _mergeProcessEnv(Spread(finalDotEnvValues[c], secrets), processEnv)).success

\* C9: when exactly one of several sources fails and the others fulfil with
\* objects, the merged secrets have exactly the keys of the sources that
\* succeeded, exactly one warning is logged and it names the failing source's
\* index, and the call rejects only if validation of the merged input fails.
C9_OneFailureIsTolerated ==
  \A c \in Calls :
    ( /\ SecretsReturned(c)
      /\ Len(SourcesOf(c)) >= 2
      /\ Cardinality(FailingSources(c)) = 1
      /\ ObjectSources(c) = Indices(SourcesOf(c)) \ FailingSources(c) ) =>
      LET f == CHOOSE i \in FailingSources(c) : TRUE IN
      /\ DOMAIN secretsValues[c] = KeysOfObjectSources(c)
      /\ Len(SecretsWarnings(c)) = 1
      /\ SecretsWarnings(c)[1].kind = "secretFailed"
      /\ SecretsWarnings(c)[1].index = f - 1
      /\ pc[c] = "done" =>
           /\ outcome[c].status = "rejected" => ~validationResult[c].success
           /\ WouldValidate(c, secretsValues[c]) => outcome[c].status = "resolved"

\* C9 witness: the middle one of three sources rejects, the two others give A
\* and B, and the call resolves with them.
C9_Witness ==
  /\ pc[1] = "done"
  /\ outcome[1].status = "resolved"
  /\ SourcesOf(1) = <<FulfilObject([k \in {"A"} |-> "S1"]), RejectSource,
                      FulfilObject([k \in {"A", "B"} |-> "S2"])>>
  /\ processEnv = [k \in {"B"} |-> "P"]
  /\ DOMAIN secretsValues[1] = {"A", "B"}
  /\ Len(SecretsWarnings(1)) = 1
  /\ SecretsWarnings(1)[1].index = 1

InvalidOptions(o) ==
  \/ o.schema # "undefined" /\ o.validator # "undefined"
  \/ o.schema = "undefined" /\ o.validator = "undefined"
  \/ o.schema \notin {"undefined", "ZodObject"} /\ o.validator = "undefined"

IsValidationReport(e) == e.kind = "validationReport"
ValidationReports(c) == SelectSeq(log[c], IsValidationReport)

\* The adapter of a call has reported a failure.
ValidationFailed(c) == validateCalls[c] = 1 /\ ~validationResult[c].success

\* C8: when the adapter reports failure, the call throws or rejects with the
\* fixed message, whatever the issues are; the formatted issue list has been
\* logged exactly once, at error level, before the throw; no data is returned.
C8_ValidationFailureIsReportedOnce ==
  \A c \in Calls :
    /\ (ValidationFailed(c) /\ pc[c] \in {"reported", "done"}) =>
         /\ Len(ValidationReports(c)) = 1
         /\ ValidationReports(c)[1].level = "error"
         /\ Len(ValidationReports(c)[1].lines) = Len(validationResult[c].issues)
         /\ \A i \in Indices(validationResult[c].issues) :
              ValidationReports(c)[1].lines[i] =
                "  - " \o (IF validationResult[c].issues[i].path = <<>>
                              THEN "UNKNOWN_PATH"
                              ELSE JoinPath(validationResult[c].issues[i].path))
                       \o ": " \o validationResult[c].issues[i].message
         /\ pc[c] = "reported" => outcome[c] = NoOutcome
         /\ pc[c] = "done" =>
              /\ outcome[c].status = (IF opts[c].mode = "sync" THEN "threw" ELSE "rejected")
              /\ outcome[c].message = "Environment validation failed. Check console output."
              /\ outcome[c].data = EmptyMap
    /\ (outcome[c].status \in {"threw", "rejected"} /\ ValidationFailed(c)) =>
         Len(ValidationReports(c)) = 1
    /\ (~ValidationFailed(c) \/ pc[c] = "validated") => ValidationReports(c) = <<>>

\* C8 witness: a custom adapter reported two issues, both were logged in one
\* error-level report, and the synchronous call threw the fixed message.
C8_Witness ==
  /\ pc[1] = "done"
  /\ opts[1].mode = "sync"
  /\ adapter[1] = "customAdapterFailure"
  /\ Len(validationResult[1].issues) = 2
  /\ Len(ValidationReports(1)) = 1
  /\ Len(ValidationReports(1)[1].lines) = 2
  /\ outcome[1].status = "threw"
  /\ outcome[1].message = MsgValidationFailed

\* _expandDotEnvValues has returned.
ExpansionReturned(c) ==
  \/ pc[c] \in {"fetch", "await", "merge", "validate", "validated", "reported"}
  \/ pc[c] = "done" /\ validateCalls[c] = 1

\* A file value that is one reference to x, and a file value without references.
IsReferenceTo(value, x) == value = "${" \o x \o "}"
IsLiteral(value) == value \in {"F", "FE", "F0", "F1", "F2"}

StringEntries(c) ==
  CASE opts[c].dotEnvPath.kind = "undefined" -> <<"./.env">>
    [] opts[c].dotEnvPath.kind = "string" -> opts[c].dotEnvPath.entries
    [] opts[c].dotEnvPath.kind = "array" ->
         SelectSeq(opts[c].dotEnvPath.entries, IsStringEntry)
    [] OTHER -> <<>>

\* The positions of the path option that hold something other than a string.
NonStringPositions(c) ==
  IF opts[c].dotEnvPath.kind # "array" THEN {}
  ELSE {i \in Indices(opts[c].dotEnvPath.entries) :
          ~IsStringEntry(opts[c].dotEnvPath.entries[i])}

\* The reads of a call when the environment-specific file is read iff wanted.
ReadsWhen(c, wanted) ==
  IF opts[c].dotEnvPath.kind = "false" THEN <<>>
  ELSE StringEntries(c)
       \o (IF wanted THEN <<"./.env." \o processEnv["NODE_ENV"]>> ELSE <<>>)

IsPrefix(s, t) == Len(s) <= Len(t) /\ \A i \in Indices(s) : s[i] = t[i]

IsInvalidPathWarning(e) == e.level = "warn" /\ e.kind = "invalidPath"
InvalidPathWarningsOf(c) == SelectSeq(log[c], IsInvalidPathWarning)

C14_ExpanderCallCount ==
  \A c \in Calls :
    IF ~ExpansionReturned(c) THEN expandCalls[c] = 0 /\ expandArgs[c] = <<>>
    ELSE IF ~opts[c].expandVariables \/ DOMAIN mergedDotEnvParsed[c] = {}
      THEN /\ expandCalls[c] = 0
           /\ expandArgs[c] = <<>>
           /\ finalDotEnvValues[c] = mergedDotEnvParsed[c]
    ELSE /\ expandCalls[c] = 1
         /\ Len(expandArgs[c]) = 1

\* C14 witness: expansion is enabled, the file exists and is empty, and the
\* call went on to validation without a call of the expander.
C14_Witness ==
  /\ pc[1] = "validated"
  /\ opts[1].expandVariables
  /\ opts[1].expander = "localMock"
  /\ reads[1] = <<DefaultPath>>
  /\ fs[DefaultPath] = FileOk(EmptyMap)
  /\ expandCalls[1] = 0
  /\ finalDotEnvValues[1] = EmptyMap

\* The expansion errors in the log of a call.
IsExpansionError(e) == e.kind = "expansionError"
ExpansionErrors(c) == SelectSeq(log[c], IsExpansionError)

\* The expander of a call was run and threw.
ExpanderThrew(c) ==
  /\ ExpansionReturned(c)
  /\ opts[c].expandVariables
  /\ opts[c].expander \in {"throws", "mutatesThenThrows"}
  /\ ReadCode(DefaultPath) = "OK"
  /\ fs[DefaultPath].parsed # EmptyMap

\* C15: if the expander throws, one error-level entry is logged, the values
\* carried forward are the file values as they were read (also when the
\* expander wrote into its argument before throwing), and the call goes on to
\* the merge and to validation, failing only if validation fails.
C15_ExpanderThrowIsNotFatal ==
  \A c \in Calls :
    /\ ExpanderThrew(c) =>
         /\ finalDotEnvValues[c] = fs[DefaultPath].parsed
         /\ Len(ExpansionErrors(c)) = 1
         /\ ExpansionErrors(c)[1].level = "error"
         /\ AfterMerge(c) =>
              \A k \in DOMAIN fs[DefaultPath].parsed :
                (k \notin DOMAIN processEnv /\ k \notin DOMAIN secretsValues[c]) =>
                  sourceForValidation[c][k] = fs[DefaultPath].parsed[k]
         /\ pc[c] = "done" =>
              /\ validateCalls[c] = 1
              /\ validationResult[c].success => outcome[c].status \in {"returned", "resolved"}
    /\ (ExpansionReturned(c) /\ ~ExpanderThrew(c)) => ExpansionErrors(c) = <<>>

\* C15 witness: the expander overwrote its argument and threw; the call
\* returned, and A reached validation as the file gives it.
C15_Witness ==
  /\ pc[1] = "done"
  /\ opts[1].mode = "sync"
  /\ opts[1].expandVariables
  /\ opts[1].expander = "mutatesThenThrows"
  /\ fs[DefaultPath] = FileOk([k \in {"A", "B"} |-> IF k = "A" THEN "${B}" ELSE "F"])
  /\ processEnv = EmptyMap
  /\ Len(ExpansionErrors(1)) = 1
  /\ sourceForValidation[1] = [k \in {"A", "B"} |-> IF k = "A" THEN "${B}" ELSE "F"]
  /\ outcome[1].status = "returned"

\* The message of the error class the inputs of a failed call fall in: the
\* options, else the first fatal read, else validation. It does not depend on
\* the entry point.
MessageOfFailure(c) ==
  IF opts[c].schema # "undefined" /\ opts[c].validator # "undefined"
    THEN "Cannot provide both 'schema' and 'validator' options."
  ELSE IF opts[c].schema = "undefined" /\ opts[c].validator = "undefined"
    THEN "Must provide either a 'schema' or a 'validator' option."
  ELSE IF opts[c].validator = "undefined" /\ opts[c].schema # "ZodObject"
    THEN "Invalid 'schema' provided. Expected a ZodObject when 'validator' is not used."
  ELSE IF FatalReads(c) # {}
    THEN "Failed to load environment file from " \o reads[c][Last(FatalReads(c))]
  ELSE "Environment validation failed. Check console output."

SourcesInvoked(c) ==
  opts[c].mode = "async" /\ (pc[c] = "await" \/ SecretsReturned(c))

\* C17: in a createEnvAsync call that reaches the secrets step every supplied
\* source is invoked exactly once, also those after a source that throws or
\* rejects; no source is invoked before the step and all are invoked before
\* any result is awaited; the secret merge, the process-environment overlay
\* and validation start only when every source has settled.
C17_SourcesInvokedOnceThenAwaited ==
  \A c \in Calls :
    LET n == Len(SourcesOf(c)) IN
    /\ SourcesInvoked(c) =>
         /\ Len(sourceCalls[c]) = n
         /\ \A i \in 1..n : sourceCalls[c][i] = 1
         /\ Len(promises[c]) = n
    /\ ~SourcesInvoked(c) =>
         /\ sourceCalls[c] = <<>>
         /\ settleOrder[c] = <<>>
    /\ (SecretsReturned(c) \/ validateCalls[c] > 0 \/ sourceForValidation[c] # EmptyMap) =>
         /\ SourcesInvoked(c)
         /\ \A i \in 1..n : promises[c][i].state \in {"fulfilled", "rejected"}

\* C17 witness: the first source threw, the second rejected, the third
\* fulfilled; each was called once and the merge has begun.
C17_Witness ==
  /\ pc[1] = "merge"
  /\ SourcesOf(1) = <<SyncThrowSource, RejectSource,
                      FulfilObject([k \in {"A"} |-> "S1"])>>
  /\ sourceCalls[1] = <<1, 1, 1>>
  /\ promises[1][3].state = "fulfilled"
  /\ secretsValues[1] = [k \in {"A"} |-> "S1"]

\* Every layer of a call merged: process.env over the secrets (createEnvAsync
\* only) over the expanded file values.
FullyMerged(c) ==
  LET secrets == IF opts[c].mode = "async" THEN secretsValues[c] ELSE EmptyMap
      keys == (DOMAIN finalDotEnvValues[c]) \cup (DOMAIN secrets) \cup (DOMAIN processEnv)
  IN [k \in keys |->
        IF k \in DOMAIN processEnv THEN processEnv[k]
        ELSE IF k \in DOMAIN secrets THEN secrets[k]
        ELSE finalDotEnvValues[c][k]]

\* C18: a call that passes option checking and file loading calls validate of
\* the chosen adapter exactly once, after all layers are merged and with the
\* fully merged input, process-environment keys the adapter never looks at
\* included; the data a custom validator succeeds with is returned as it is,
\* where the schema adapter would have failed or returned other data.
C18_ValidateOnceOnMergedInput ==
  \A c \in Calls :
    /\ validateCalls[c] <= 1
    /\ pc[c] \in {"off", "start", "load", "loadBase", "expand", "fetch", "await",
                  "merge", "validate"} => validateCalls[c] = 0
    /\ (pc[c] = "done" /\ LoaderReturned(c)) => validateCalls[c] = 1
    /\ pc[c] \in {"validated", "reported"} =>
         /\ validateCalls[c] = 1
         /\ sourceForValidation[c] = FullyMerged(c)
    /\ (pc[c] = "done" /\ opts[c].validator = "customAdapterSuccess"
                       /\ opts[c].schema = "undefined" /\ LoaderReturned(c)) =>
         LET a == Get(sourceForValidation[c], "A") IN
         /\ outcome[c].status = (IF opts[c].mode = "sync" THEN "returned" ELSE "resolved")
         /\ DOMAIN outcome[c].data = {"CUSTOM_VAR", "INPUT_VAR"}
         /\ outcome[c].data["INPUT_VAR"] = a
         /\ outcome[c].data["CUSTOM_VAR"] =
              (IF a \in {UNDEF, ""} THEN "validated-default" ELSE "validated-" \o a)

\* C18 witness: a custom validator was handed B from process.env, which it
\* never looks at, no A, and its own data came back from createEnv; the
\* schema adapter would have reported A as missing.
C18_Witness ==
  /\ pc[1] = "done"
  /\ opts[1].mode = "sync"
  /\ adapter[1] = "customAdapterSuccess"
  /\ processEnv = [k \in {"B"} |-> "P"]
  /\ sourceForValidation[1] = [k \in {"B"} |-> "P"]
  /\ validateCalls[1] = 1
  /\ outcome[1].status = "returned"
  /\ outcome[1].data["CUSTOM_VAR"] = "validated-default"
  /\ ~ZodValidate(sourceForValidation[1]).success

\* The expander of the repository was run on the file layer of the call.
LocalMockExpanded(c) ==
  /\ ExpansionReturned(c)
  /\ opts[c].expandVariables
  /\ opts[c].expander = "localMock"
  /\ mergedDotEnvParsed[c] # EmptyMap

DottedPath(path) ==
  CASE Len(path) = 0 -> "UNKNOWN_PATH"
    [] Len(path) = 1 -> path[1]
    [] Len(path) = 2 -> path[1] \o "." \o path[2]
    [] OTHER -> path[1] \o "." \o path[2] \o "." \o path[3]

\* The issues the adapter of a failed call gave, as the options fix them for
\* the custom adapters.
IssuesGiven(c) ==
  IF adapter[c] \in IssueAdapters THEN IssueAdapterIssues(adapter[c])
  ELSE validationResult[c].issues

\* C20: on validation failure the logged report has one line for every issue
\* the adapter returned, in the adapter's order, none dropped or merged; a line
\* shows the path joined with "." (UNKNOWN_PATH for an empty path) and the
\* message.
C20_ReportListsEveryIssue ==
  \A c \in Calls :
    (ValidationFailed(c) /\ pc[c] \in {"reported", "done"}) =>
      /\ Len(ValidationReports(c)) = 1
      /\ LET lines == ValidationReports(c)[1].lines
             issues == IssuesGiven(c) IN
           /\ issues # <<>>
           /\ Len(lines) = Len(issues)
           /\ \A i \in Indices(issues) :
                lines[i] = "  - " \o DottedPath(issues[i].path) \o ": "
                                  \o issues[i].message

\* C20 witness: a custom adapter returned three issues, with a nested path, an
\* empty path and a path through a list index; the report shows the three.
C20_Witness ==
  /\ pc[1] = "done"
  /\ adapter[1] = "joiNestedIssues"
  /\ outcome[1].status = "rejected"
  /\ ValidationReports(1)[1].lines =
       <<"  - DB.HOST: is required",
         "  - UNKNOWN_PATH: contains a conflict",
         "  - LIST.0.NAME: must be a string">>

\* The sources whose promise fulfils with something that is not an object: a
\* string, or null.
UnusableSources(c) ==
  {i \in Indices(SourcesOf(c)) :
     SourcesOf(c)[i].kind = "fulfil" /\ SourcesOf(c)[i].vtype # "object"}

\* C21 (as stated): when every supplied source fails or fulfils with a
\* non-object, the "all N sources failed" summary warning is logged and the
\* returned mapping is empty.
C21_SummaryWhenNoneUsable ==
  \A c \in Calls :
    ( /\ SecretsReturned(c)
      /\ Len(SourcesOf(c)) >= 1
      /\ FailingSources(c) \cup UnusableSources(c) = Indices(SourcesOf(c)) ) =>
      /\ Cardinality(WarningsOfKind(c, "allSecretsFailed")) = 1
      /\ secretsValues[c] = EmptyMap

\* C21 (amended): when every supplied source fails or fulfils with a
\* non-object, the returned mapping is empty; the summary warning is logged,
\* once, last and with the number of sources, exactly when every source's
\* promise was rejected: a source that fulfils with a non-object counts as a
\* successful fetch and suppresses the summary.
C21_SummaryOnlyWhenAllRejected ==
  \A c \in Calls :
    ( /\ SecretsReturned(c)
      /\ Len(SourcesOf(c)) >= 1
      /\ FailingSources(c) \cup UnusableSources(c) = Indices(SourcesOf(c)) ) =>
      LET w == SecretsWarnings(c)
          summaries == WarningsOfKind(c, "allSecretsFailed") IN
      /\ secretsValues[c] = EmptyMap
      /\ IF UnusableSources(c) = {}
           THEN /\ summaries = {Len(w)}
                /\ w[Len(w)].index = Len(SourcesOf(c))
           ELSE summaries = {}

\* C21 witness: one source rejects and the other fulfils with a string; both
\* are reported, no summary follows, and the mapping is empty.
C21_Witness ==
  /\ pc[1] = "merge"
  /\ SourcesOf(1) = <<RejectSource, FulfilNonObject("string")>>
  /\ secretsValues[1] = EmptyMap
  /\ Len(SecretsWarnings(1)) = 2
  /\ SecretsWarnings(1)[1].kind = "secretFailed"
  /\ SecretsWarnings(1)[2].kind = "secretNonObject"
  /\ WarningsOfKind(1, "allSecretsFailed") = {}

\* The sources whose promise fulfils with {}.
EmptyObjectSources(c) == {i \in ObjectSources(c) : SourcesOf(c)[i].value = EmptyMap}

\* The indices the warnings of a call name, in the order they were logged.
WarningIndices(c) == [j \in Indices(SecretsWarnings(c)) |-> SecretsWarnings(c)[j].index]

\* The elements of a set of source positions as zero-based indices, ascending.
RECURSIVE Ascending(_)
Ascending(S) ==
  IF S = {} THEN <<>>
  ELSE LET least == CHOOSE i \in S : \A j \in S : i <= j
       IN <<least - 1>> \o Ascending(S \ {least})

\* C22: when at least one source fulfils with {} and every other source
\* fails, no "all sources failed" summary is logged: the warnings are exactly
\* one failure warning per failing source, in index order.
C22_EmptyObjectCountsAsSuccess ==
  \A c \in Calls :
    ( /\ SecretsReturned(c)
      /\ EmptyObjectSources(c) # {}
      /\ FailingSources(c) = Indices(SourcesOf(c)) \ EmptyObjectSources(c) ) =>
      /\ WarningsOfKind(c, "allSecretsFailed") = {}
      /\ \A j \in Indices(SecretsWarnings(c)) : SecretsWarnings(c)[j].kind = "secretFailed"
      /\ WarningIndices(c) = Ascending(FailingSources(c))
      /\ secretsValues[c] = EmptyMap

\* C22 witness: the middle source fulfils with {} and its two neighbours
\* fail; two failure warnings are logged and nothing else.
C22_Witness ==
  /\ pc[1] = "merge"
  /\ SourcesOf(1) = <<RejectSource, FulfilObject(EmptyMap), SyncThrowSource>>
  /\ Len(SecretsWarnings(1)) = 2
  /\ WarningIndices(1) = <<0, 2>>
  /\ WarningsOfKind(1, "allSecretsFailed") = {}

\* The sources that throw when called or return something without a then().
SyncFailingSources(c) ==
  {i \in Indices(SourcesOf(c)) : SourcesOf(c)[i].kind \in {"syncThrow", "syncReturn"}}

\* The warnings of a call that name source position i.
WarningsNaming(c, i) ==
  {j \in Indices(SecretsWarnings(c)) :
     /\ SecretsWarnings(c)[j].kind # "allSecretsFailed"
     /\ SecretsWarnings(c)[j].index = i - 1}

\* The number of warnings a source brings on by what its promise does.
WarningsDue(fn) ==
  IF fn.kind \in {"syncThrow", "syncReturn", "reject"} THEN 1
  ELSE IF fn.kind = "fulfil" /\ fn.vtype \notin {"object", "null", "undefined"} THEN 1
  ELSE 0

\* The mapping the sources that fulfil with objects give, later index first.
MergedFromObjectSources(c) ==
  [k \in KeysOfObjectSources(c) |-> SourcesOf(c)[Last(SourcesDefining(c, k))].value[k]]

\* C23: a source that throws synchronously, or returns a value that is not
\* awaitable, is a failure of its index: exactly one warning names the index
\* and carries the matching reason, the returned mapping is the one the
\* sources fulfilling with objects give (no key of a synchronously returned
\* object among them), and every other source is called once and brings on
\* the warnings its own result is due.
C23_SyncFailureIsPerIndex ==
  \A c \in Calls :
    SecretsReturned(c) =>
      \A i \in SyncFailingSources(c) :
        /\ Cardinality(WarningsNaming(c, i)) = 1
        /\ LET w == SecretsWarnings(c)[CHOOSE j \in WarningsNaming(c, i) : TRUE] IN
             /\ w.kind = "secretFailed"
             /\ w.lines = <<IF SourcesOf(c)[i].kind = "syncThrow"
                              THEN "Sync error in secrets source function"
                              ELSE "Sync return value from secrets source function">>
        /\ ObjectSources(c) # {} => secretsValues[c] = MergedFromObjectSources(c)
        /\ ObjectSources(c) = {} => secretsValues[c] = EmptyMap
        /\ \A j \in Indices(SourcesOf(c)) \ {i} :
             /\ sourceCalls[c][j] = 1
             /\ Cardinality(WarningsNaming(c, j)) = WarningsDue(SourcesOf(c)[j])

\* C23 witness: the first source returns {A: "R"} without a promise, the
\* second throws, the third fulfils with {A: "S1"}; two warnings name 0 and 1
\* and the mapping holds the third source's A alone.
C23_Witness ==
  /\ pc[1] = "merge"
  /\ SourcesOf(1) = <<SyncReturnSource([k \in {"A"} |-> "R"]), SyncThrowSource,
                      FulfilObject([k \in {"A"} |-> "S1"])>>
  /\ secretsValues[1] = [k \in {"A"} |-> "S1"]
  /\ WarningIndices(1) = <<0, 1>>

\* The mapping _fetchSecrets returns when the sources that fulfil with
\* objects are the only ones to give keys.
ExpectedSecrets(c) ==
  IF ObjectSources(c) = {} THEN EmptyMap ELSE MergedFromObjectSources(c)

\* C24: a source that fulfils with a present value that is not an object
\* brings on exactly one warning, which names its index and the value's
\* runtime type; a source that fulfils with null or undefined brings on no
\* warning; neither merges anything: the returned mapping is the one the
\* sources fulfilling with objects give.
C24_NonObjectValues ==
  \A c \in Calls :
    SecretsReturned(c) =>
      \A i \in UnusableSources(c) :
        LET fn == SourcesOf(c)[i] IN
        /\ IF fn.vtype \in {"null", "undefined"}
             THEN WarningsNaming(c, i) = {}
             ELSE /\ Cardinality(WarningsNaming(c, i)) = 1
                  /\ LET w == SecretsWarnings(c)[CHOOSE j \in WarningsNaming(c, i) : TRUE]
                     IN w.kind = "secretNonObject" /\ w.lines = <<fn.vtype>>
        /\ secretsValues[c] = ExpectedSecrets(c)

\* C24 witness: a string, then undefined, then {A: "S1"}: one warning, naming
\* index 0 and "string", and the mapping is that of the third source.
C24_Witness ==
  /\ pc[1] = "merge"
  /\ SourcesOf(1) = <<FulfilNonObject("string"), FulfilNonObject("undefined"),
                      FulfilObject([k \in {"A"} |-> "S1"])>>
  /\ Len(SecretsWarnings(1)) = 1
  /\ SecretsWarnings(1)[1].index = 0
  /\ SecretsWarnings(1)[1].lines = <<"string">>
  /\ secretsValues[1] = [k \in {"A"} |-> "S1"]

\* The positions of a call after _loadDotEnvFiles was entered and before the
\* call ended.
PastLoadEntry(c) ==
  pc[c] \in {"loadBase", "expand", "fetch", "await", "merge", "validate",
             "validated", "reported"}

\* C25 (as stated): a call takes nothing from process.env before the final
\* merge, so what it holds after the merge comes from one snapshot: the
\* NODE_ENV the load step worked with is the NODE_ENV the merge saw.
C25_OneReadAtMerge ==
  \A c \in Calls :
    /\ (PastLoadEntry(c) /\ ~AfterMerge(c)) => nodeEnv[c] = UNDEF
    /\ AfterMerge(c) => nodeEnv[c] = Get(processEnv, "NODE_ENV")

\* C25 (amended): a call reads process.env twice: NODE_ENV when the load step
\* begins, and every variable at the final merge. As long as nothing changed
\* process.env in between, which is always so in createEnv, the two reads see
\* one snapshot; the merge always uses process.env as it is at the merge.
C25_TwoReads ==
  \A c \in Calls :
    /\ (PastLoadEntry(c) /\ (opts[c].mode = "sync" \/ envChanges = 0)) =>
         nodeEnv[c] = Get(processEnv, "NODE_ENV")
    /\ opts[c].mode = "sync" => envChanges = 0
    /\ AfterMerge(c) =>
         sourceForValidation[c] =
           _mergeProcessEnv(
             SourceBeforeProcessEnv(opts[c].mode, finalDotEnvValues[c],
                                    secretsValues[c]),
             processEnv)

\* C25 witness: a createEnvAsync call loaded ./.env.test because NODE_ENV was
\* "test" at load time; NODE_ENV was deleted while the secrets were awaited,
\* and the merged input has the file's A but no NODE_ENV.
C25_Witness ==
  /\ opts[1].mode = "async"
  /\ pc[1] = "validate"
  /\ nodeEnv[1] = "test"
  /\ reads[1] = <<DefaultPath, EnvSpecificPath("test")>>
  /\ "NODE_ENV" \notin DOMAIN processEnv
  /\ "NODE_ENV" \notin DOMAIN sourceForValidation[1]
  /\ Get(sourceForValidation[1], "A") = "FE"

\* The sources of a call whose promise never settles.
HangingSources(c) == {i \in Indices(SourcesOf(c)) : SourcesOf(c)[i].kind = "hang"}

\* The promise createEnvAsync returned has settled.
PromiseSettled(c) == outcome[c].status \in {"resolved", "rejected"}

\* C26: a createEnvAsync call whose sources all settle leads to a settled
\* promise; once a call has invoked its sources and one of them never
\* settles, the call stays at its await and its promise stays pending.
C26_SettlesIffSourcesSettle ==
  /\ \A c \in Calls :
       (opts[c].mode = "async" /\ HangingSources(c) = {}) ~> PromiseSettled(c)
  /\ [](\A c \in Calls :
          (HangingSources(c) # {} /\ promises[c] # <<>>) =>
            (pc[c] = "await" /\ ~PromiseSettled(c)))

\* C26 witness: the first source has fulfilled, the second never settles, and
\* the call is still at its await with its promise pending.
C26_Witness ==
  /\ pc[1] = "await"
  /\ SourcesOf(1) = <<FulfilObject([k \in {"A"} |-> "S1"]), HangSource>>
  /\ promises[1][1].state = "fulfilled"
  /\ promises[1][2].state = "pending"
  /\ ~PromiseSettled(1)

\* The outcome of createEnvAsync that corresponds to an outcome of createEnv:
\* resolved with the returned value, rejected with the thrown error.
AsyncOutcomeOf(syncOutcome) ==
  [syncOutcome EXCEPT !.status =
     CASE syncOutcome.status = "returned" -> "resolved"
       [] syncOutcome.status = "threw" -> "rejected"
       [] OTHER -> syncOutcome.status]

SourcesGiving(c, k) ==
  {i \in SourcesDefining(c, k) : SourcesOf(c)[i].value[k] # UNDEF}

\* C28: a key that a fulfilled source maps to undefined is not defined by
\* that source: when process.env lacks the key, the validated input holds the
\* value of the highest-index source that gives the key a value, else the
\* file value, else nothing.
C28_UndefinedDoesNotDefine ==
  \A c \in Calls :
    (SecretsReturned(c) /\ AfterMerge(c)) =>
      \A k \in AllKeys \ DOMAIN processEnv :
        Get(sourceForValidation[c], k) =
          IF SourcesGiving(c, k) # {}
            THEN SourcesOf(c)[Last(SourcesGiving(c, k))].value[k]
            ELSE Get(finalDotEnvValues[c], k)

\* The positions among the reads of a call that are not reads of the paths
\* the path option names.
ReadsBeyondPathList(c) == {i \in Indices(reads[c]) : i > Len(StringEntries(c))}

\* NODE_ENV is defined for the call by a file it loaded or by a secret.
NodeEnvFromLayers(c) ==
  "NODE_ENV" \in (DOMAIN mergedDotEnvParsed[c]) \cup (DOMAIN secretsValues[c])

\* C29: once the file loader has returned, the environment-specific file was
\* attempted iff file loading is not disabled and the NODE_ENV that
\* process.env held at load time is a non-empty string; it is then the one
\* read after those of the path list, and its path is "./.env." followed by
\* that value, whatever the path list; the NODE_ENV of load time is that of
\* process.env as long as process.env has not changed. A NODE_ENV that only a
\* file or a secret defines has no part in it.
C29_EnvSpecificFollowsProcessEnv ==
  \A c \in Calls :
    LoaderReturned(c) =>
      /\ envChanges = 0 => nodeEnv[c] = Get(processEnv, "NODE_ENV")
      /\ IF opts[c].dotEnvPath.kind # "false" /\ nodeEnv[c] \notin {UNDEF, ""}
           THEN /\ ReadsBeyondPathList(c) = {Len(reads[c])}
                /\ reads[c][Len(reads[c])] = "./.env." \o nodeEnv[c]
           ELSE ReadsBeyondPathList(c) = {}

\* C29 witness: process.env has no NODE_ENV; the file p1 and the secret both
\* define NODE_ENV = "test", ./.env.test is on disk, and the call has read p1
\* and p2 and nothing else; the validated input has the secret's NODE_ENV.
C29_Witness ==
  /\ pc[1] = "validate"
  /\ envChanges = 0
  /\ "NODE_ENV" \notin DOMAIN processEnv
  /\ opts[1].dotEnvPath = DotEnvPathArray(<<"p1", "p2">>)
  /\ ReadFile("p1") = FileOk([k \in {"NODE_ENV"} |-> "test"])
  /\ ReadFile("./.env.test") = FileOk([k \in {"A"} |-> "FE"])
  /\ secretsValues[1] = [k \in {"NODE_ENV"} |-> "test"]
  /\ NodeEnvFromLayers(1)
  /\ reads[1] = <<"p1", "p2">>
  /\ Get(sourceForValidation[1], "NODE_ENV") = "test"

\* The validated input of a call as its own options, the files and
\* process.env determine it: the files its own paths name, expanded by its
\* own setting, under the objects its own sources fulfil with, under
\* process.env.
OwnFiles(c) == LayerOf(LoadOrder(c))
OwnExpanded(c) ==
  IF opts[c].expandVariables /\ opts[c].expander = "localMock"
       /\ OwnFiles(c) # EmptyMap
    THEN LocalMockExpander(OwnFiles(c)) ELSE OwnFiles(c)
OwnInput(c) ==
  LET secrets == ExpectedSecrets(c)
      keys == (DOMAIN OwnExpanded(c)) \cup (DOMAIN secrets) \cup (DOMAIN processEnv)
  IN [k \in keys |->
        IF k \in DOMAIN processEnv THEN processEnv[k]
        ELSE IF k \in DOMAIN secrets THEN secrets[k]
        ELSE OwnExpanded(c)[k]]

\* The values one call's own files and secrets hold and the other call's
\* files, secrets and process.env do not.
ValuesOnlyOf(c, d) ==
  {OwnInput(c)[k] : k \in DOMAIN OwnInput(c)}
    \ ({OwnInput(d)[k] : k \in DOMAIN OwnInput(d)}
         \cup {OwnFiles(d)[k] : k \in DOMAIN OwnFiles(d)})

====
